---- MODULE Spec2Model ----
(***************************************************************************)
(* Row-processing pipeline of the UK company contact discovery tool:       *)
(* Phase 1 (phase1_discovery.main), Phase 2 (phase2_contacts.main), the    *)
(* schema helpers of common.py, and the two orchestrators (main.run_all    *)
(* and api_server.run_job).                                                *)
(*                                                                         *)
(* Python lists are modelled as TLA+ sequences; Python index k is TLA+     *)
(* index k+1.  None and "" are both falsy in every test the code makes on  *)
(* a string field, so an absent string field is modelled as "".            *)
(***************************************************************************)
EXTENDS Integers, Sequences, FiniteSets, TLC

(***************************************************************************)
(* Bounds of the model.                                                    *)
(***************************************************************************)
\* largest number of data rows of an input table
MaxRows == 2
\* largest configured ROW_RETRIES
MaxRetries == 2
\* largest configured PARTIAL_EVERY
MaxEvery == 2

(***************************************************************************)
(* common.py: column names.                                                *)
(***************************************************************************)
OUT_COL_ADDRESS == "ADDRESS"
OUT_COL_POSTCODE == "POSTCODE"
OUT_COL_COMPANY_NAME == "COMPANY NAME"
OUT_COL_WEBSITE == "WEBSITE"
OUT_COL_EMAIL == "GENERAL EMAIL"
OUT_COL_PHONE == "PHONE NUMBER"
OUT_COL_CONTACT_NAME == "DIRECT CONTACT"
OUT_COL_CONTACT_TITLE == "JOBTITLE"
OUT_COL_CONTACT_LINKEDIN == "LINKEDIN"
OUT_COL_CONTACT_EMAIL == "EMAIL"
OUT_COL_GOVUK_URL == "GOV.UK URL"
OUT_COL_SOURCE_URL == "source_url"
OUT_COL_CONFIDENCE == "confidence"
OUT_COL_NOTES == "notes"

(***************************************************************************)
(* Generic list helpers.                                                   *)
(***************************************************************************)
\* x in lst
Contains(lst, x) == \E k \in 1..Len(lst) : lst[k] = x

\* lst.index(x), as a TLA+ index (first occurrence)
IndexOf(lst, x) ==
    CHOOSE k \in 1..Len(lst) : lst[k] = x /\ \A j \in 1..(k-1) : lst[j] # x

\* [""] * n  (the empty list when n <= 0)
Blanks(n) == IF n <= 0 THEN <<>> ELSE [k \in 1..n |-> ""]

\* row + [""] * (width - len(row))
PadTo(row, width) == row \o Blanks(width - Len(row))

Max2(a, b) == IF a >= b THEN a ELSE b
Min2(a, b) == IF a <= b THEN a ELSE b

\* max((len(x) for x in lists), default=0)
RECURSIVE MaxLen(_)
MaxLen(lists) ==
    IF lists = <<>> THEN 0 ELSE Max2(Len(Head(lists)), MaxLen(Tail(lists)))

(***************************************************************************)
(* String conversions.  TLC cannot look inside a string, so str.strip,     *)
(* str.lower and the phone-cleaning regex are tabulated over the strings   *)
(* the model feeds them; every other model string is already in normal     *)
(* form (no surrounding blanks, lower case where lowered, digits only      *)
(* where cleaned).                                                         *)
(***************************************************************************)
\* s.strip()
Strip(s) ==
    CASE s = "   " -> ""
      [] s = " Acme Ltd " -> "Acme Ltd"
      [] s = " 10 Main St" -> "10 Main St"
      [] s = " seen by hand" -> "seen by hand"
      [] s = " Ann Lee" -> "Ann Lee"
      [] OTHER -> s

\* s.lower()
Lower(s) ==
    CASE s = "Info@X.com" -> "info@x.com"
      [] s = "Ann@X.com" -> "ann@x.com"
      [] OTHER -> s

\* clean_phone: _phone_clean_re.sub("", (p or "").strip())
clean_phone(p) ==
    CASE p = "020 7946 0000" -> "02079460000"
      [] p = "(020) 7946-0000" -> "02079460000"
      [] p = "ext. 12345" -> "12345"
      [] p = "+44 1234" -> "+441234"
      [] OTHER -> p

\* s.strip("; ") on a segment that opens the joined notes
StripSemi(s) ==
    CASE s = " seen by hand" -> "seen by hand"
      [] OTHER -> s

\* f"{c:.2f}" for a confidence given in thousandths (0 <= c <= 1000,
\* no exact ties among the model's values)
Fmt2(c) ==
    LET h == (c + 5) \div 10
        frac == h % 100
    IN  ToString(h \div 100) \o "." \o
        (IF frac < 10 THEN "0" ELSE "") \o ToString(frac)

\* dedupe_keep_order
RECURSIVE dedupe_from(_, _)
dedupe_from(items, out) ==
    IF items = <<>> THEN out
    ELSE LET x == Head(items)
         IN  IF x = "" \/ Contains(out, x)
             THEN dedupe_from(Tail(items), out)
             ELSE dedupe_from(Tail(items), Append(out, x))

dedupe_keep_order(items) == dedupe_from(items, <<>>)

\* [f(x) for x in lst if keep]
RECURSIVE CleanAll(_)
CleanAll(nums) ==
    IF nums = <<>> THEN <<>> ELSE <<clean_phone(Head(nums))>> \o CleanAll(Tail(nums))

RECURSIVE LongEnough(_)
LongEnough(nums) ==
    IF nums = <<>> THEN <<>>
    ELSE (IF Len(Head(nums)) >= 7 THEN <<Head(nums)>> ELSE <<>>) \o LongEnough(Tail(nums))

\* an ensure_col_exact that appends without looking
ensure_col_appended(header, name) == Append(header, name)

\* an ensure_phone_cols that makes the family exactly max_phones wide: it
\* drops the numbered slots above max_phones
ensure_phone_cols_exact_width(header, max_phones) ==
    SelectSeq(IF Contains(header, "PHONE NUMBER") THEN header
              ELSE Append(header, "PHONE NUMBER"),
              LAMBDA x : \A k \in 2..9 :
                  x = "PHONE NUMBER " \o ToString(k) => k <= max_phones)

\* an ensure_col_exact that puts a missing column in front
ensure_col_in_front(header, name) ==
    IF Contains(header, name) THEN header ELSE <<name>> \o header

(***************************************************************************)
(* common.py: schema helpers.  The Python functions mutate the header (and *)
(* the row) in place; the operators return the mutated values.             *)
(***************************************************************************)
\* the header after ensure_col_exact(header, name)
ensure_col_exact(header, name) ==
    IF Contains(header, name) THEN header ELSE Append(header, name)

\* the index ensure_col_exact(header, name) returns (as a TLA+ index)
ensure_col_index(header, name) == IndexOf(ensure_col_exact(header, name), name)

\* f"{OUT_COL_PHONE} {k}" (slot 1 is the bare name)
PhoneCol(k) == IF k = 1 THEN OUT_COL_PHONE ELSE OUT_COL_PHONE \o " " \o ToString(k)

RECURSIVE ensure_phone_from(_, _, _)
ensure_phone_from(header, k, max_phones) ==
    IF k > max_phones THEN header
    ELSE ensure_phone_from(ensure_col_exact(header, PhoneCol(k)), k + 1, max_phones)

\* the header after ensure_phone_cols(header, max_phones)
ensure_phone_cols(header, max_phones) ==
    ensure_phone_from(ensure_col_exact(header, OUT_COL_PHONE), 2, max_phones)

\* one pass of the loop of fill_phone_cols, from list position k (1-based)
RECURSIVE fill_phone_from(_, _, _, _)
fill_phone_from(row, header, numbers, k) ==
    IF k > Len(numbers) THEN [row |-> row, header |-> header]
    ELSE IF k = 1
    THEN LET b == IndexOf(header, OUT_COL_PHONE)
         IN  fill_phone_from(
                 [row EXCEPT ![b] = IF row[b] # "" THEN row[b] ELSE numbers[1]],
                 header, numbers, 2)
    ELSE LET h2 == ensure_col_exact(header, PhoneCol(k))
             idx == IndexOf(h2, PhoneCol(k))
             r2 == PadTo(row, idx)
         IN  fill_phone_from(
                 [r2 EXCEPT ![idx] = numbers[k]],
                 h2, numbers, k + 1)

\* the row and the header after fill_phone_cols(row, header, numbers)
fill_phone_cols(row, header, numbers) ==
    LET r == fill_phone_from(row, header, numbers, 1)
    IN  [row |-> r.row,
         header |-> ensure_phone_cols(r.header, Max2(1, Len(numbers)))]

(***************************************************************************)
(* Files.  A delimited text file is its dialect (what csv.Sniffer finds in *)
(* it), whether the sniffer sees a header in it, and its lines as lists of *)
(* cells (the header line first).  writes counts the times the path has    *)
(* been opened for writing.                                                *)
(***************************************************************************)
\* the dialect the standard csv writer settings of write_rows produce
CommaDialect == [delimiter |-> ",", quotechar |-> "\"", lineterminator |-> "\n"]
\* a semicolon-separated, single-quoted, CRLF-terminated input
SemiDialect == [delimiter |-> ";", quotechar |-> "'", lineterminator |-> "\r\n"]

\* any(c.strip() for c in row)
HasText(row) == \E k \in 1..Len(row) : Strip(row[k]) # ""

RECURSIVE DropBlank(_)
DropBlank(lines) ==
    IF lines = <<>> THEN <<>>
    ELSE (IF HasText(Head(lines)) THEN <<Head(lines)>> ELSE <<>>)
         \o DropBlank(Tail(lines))

\* read_rows(path): every line that is not empty or whitespace-only
read_rows(file) == DropBlank(file.lines)

\* sniff_dialect_and_header(path)
sniff_dialect_and_header(file) ==
    [dialect |-> file.dialect, has_header |-> file.has_header]

\* the file write_rows(path, dialect, header, rows) leaves at path: only the
\* delimiter is taken from the dialect, the quote character and the line
\* terminator are fixed
WrittenFile(dialect, header, rows, before) ==
    [dialect |-> [delimiter |-> dialect.delimiter,
                  quotechar |-> "\"",
                  lineterminator |-> "\n"],
     has_header |-> TRUE,
     lines |-> <<header>> \o rows,
     writes |-> before + 1]

\* the file system after write_rows(path, ...)
write_rows(files, path, dialect, header, rows) ==
    LET before == IF path \in DOMAIN files THEN files[path].writes ELSE 0
    IN  [q \in DOMAIN files \cup {path} |->
            IF q = path THEN WrittenFile(dialect, header, rows, before)
            ELSE files[q]]

\* a write_checkpoint that opens the log with "w": the record replaces
\* the log
write_checkpoint_truncating(lg, path, record) ==
    [q \in DOMAIN lg \cup {path} |-> IF q = path THEN <<record>> ELSE lg[q]]

\* the checkpoint logs after write_checkpoint(record)
write_checkpoint(lg, path, record) ==
    [q \in DOMAIN lg \cup {path} |->
        IF q = path
        THEN (IF path \in DOMAIN lg THEN Append(lg[path], record) ELSE <<record>>)
        ELSE lg[q]]

(***************************************************************************)
(* Process environment, .env file and module-level configuration.          *)
(* os.environ and the .env file map names to strings; "" stands for a name *)
(* that is not set.                                                        *)
(***************************************************************************)
EnvNames ==
    {"GOOGLE_API_KEY", "INPUT_CSV", "OUTPUT_CSV", "PARTIAL_CSV", "PARTIAL_EVERY",
     "ROW_RETRIES", "INPUT_CSV_PHASE2", "OUTPUT_CSV_PHASE2", "PARTIAL_CSV_PHASE2",
     "TARGET_CONTACTS", "RETRY_START_SLEEP", "RETRY_BACKOFF_BASE", "RETRY_MAX_SLEEP"}

NoEnv == [n \in EnvNames |-> ""]

\* os.getenv(name, default)
Getenv(e, name, default) == IF e[name] = "" THEN default ELSE e[name]

\* int(s) for a decimal string
ParseInt(s) == CHOOSE n \in -9..99 : ToString(n) = s

\* float(s), in thousandths
ParseFloat(s) ==
    CASE s = "0.5" -> 500
      [] s = "1.0" -> 1000
      [] s = "1.2" -> 1200
      [] s = "1.8" -> 1800
      [] s = "2.0" -> 2000
      [] s = "3.0" -> 3000
      [] s = "12.0" -> 12000

\* os.environ after load_dotenv(override=...)
load_dotenv(e, d, override) ==
    [n \in EnvNames |-> IF d[n] # "" /\ (override \/ e[n] = "") THEN d[n] ELSE e[n]]

\* the module-level names of phase1_discovery after its import
Phase1Config(e, run_id) ==
    [imported |-> TRUE,
     INPUT_CSV |-> Getenv(e, "INPUT_CSV", "input.csv"),
     OUTPUT_CSV |-> Getenv(e, "OUTPUT_CSV", "output.core.csv"),
     PARTIAL_EVERY |-> ParseInt(Getenv(e, "PARTIAL_EVERY", "20")),
     PARTIAL_CSV |-> Getenv(e, "PARTIAL_CSV", "output.core.partial.csv"),
     ROW_RETRIES |-> ParseInt(Getenv(e, "ROW_RETRIES", "5")),
     RETRY_BACKOFF_BASE |-> ParseFloat(Getenv(e, "RETRY_BACKOFF_BASE", "1.8")),
     RETRY_START_SLEEP |-> ParseFloat(Getenv(e, "RETRY_START_SLEEP", "1.0")),
     RETRY_MAX_SLEEP |-> ParseFloat(Getenv(e, "RETRY_MAX_SLEEP", "12.0")),
     TARGET_CONTACTS |-> 0,
     CHECKPOINT_JSONL |-> "runs/phase1-" \o ToString(run_id) \o "/checkpoint.jsonl"]

\* Phase2Config without line 40: TARGET_CONTACTS as configured
Phase2ConfigUnclamped(e, run_id) ==
    [imported |-> TRUE,
     INPUT_CSV |-> Getenv(e, "INPUT_CSV_PHASE2", "output.core.csv"),
     OUTPUT_CSV |-> Getenv(e, "OUTPUT_CSV_PHASE2", "output.with_contacts.csv"),
     PARTIAL_EVERY |-> ParseInt(Getenv(e, "PARTIAL_EVERY", "20")),
     PARTIAL_CSV |-> Getenv(e, "PARTIAL_CSV_PHASE2", "output.with_contacts.partial.csv"),
     ROW_RETRIES |-> Max2(1, ParseInt(Getenv(e, "ROW_RETRIES", "5"))),
     RETRY_BACKOFF_BASE |-> ParseFloat(Getenv(e, "RETRY_BACKOFF_BASE", "1.8")),
     RETRY_START_SLEEP |-> ParseFloat(Getenv(e, "RETRY_START_SLEEP", "1.0")),
     RETRY_MAX_SLEEP |-> ParseFloat(Getenv(e, "RETRY_MAX_SLEEP", "12.0")),
     TARGET_CONTACTS |-> ParseInt(Getenv(e, "TARGET_CONTACTS", "3")),
     CHECKPOINT_JSONL |-> "runs/phase2-" \o ToString(run_id) \o "/checkpoint.jsonl"]

\* the module-level names of phase2_contacts after its import
Phase2Config(e, run_id) ==
    [imported |-> TRUE,
     INPUT_CSV |-> Getenv(e, "INPUT_CSV_PHASE2", "output.core.csv"),
     OUTPUT_CSV |-> Getenv(e, "OUTPUT_CSV_PHASE2", "output.with_contacts.csv"),
     PARTIAL_EVERY |-> ParseInt(Getenv(e, "PARTIAL_EVERY", "20")),
     PARTIAL_CSV |-> Getenv(e, "PARTIAL_CSV_PHASE2", "output.with_contacts.partial.csv"),
     ROW_RETRIES |-> Max2(1, ParseInt(Getenv(e, "ROW_RETRIES", "5"))),
     RETRY_BACKOFF_BASE |-> ParseFloat(Getenv(e, "RETRY_BACKOFF_BASE", "1.8")),
     RETRY_START_SLEEP |-> ParseFloat(Getenv(e, "RETRY_START_SLEEP", "1.0")),
     RETRY_MAX_SLEEP |-> ParseFloat(Getenv(e, "RETRY_MAX_SLEEP", "12.0")),
     TARGET_CONTACTS |-> Max2(1, Min2(3, ParseInt(Getenv(e, "TARGET_CONTACTS", "3")))),
     CHECKPOINT_JSONL |-> "runs/phase2-" \o ToString(run_id) \o "/checkpoint.jsonl"]

NotImported ==
    [imported |-> FALSE, INPUT_CSV |-> "", OUTPUT_CSV |-> "", PARTIAL_EVERY |-> 0,
     PARTIAL_CSV |-> "", ROW_RETRIES |-> 0, RETRY_BACKOFF_BASE |-> 0,
     RETRY_START_SLEEP |-> 0, RETRY_MAX_SLEEP |-> 0, TARGET_CONTACTS |-> 0,
     CHECKPOINT_JSONL |-> ""]

\* sys.modules and os.environ after "import phase1_discovery": the module
\* body runs on the first import only; it reads its configuration and then
\* loads .env over the environment
ImportPhase1(mods, e, d, run_id) ==
    IF mods[1].imported THEN [modules |-> mods, environ |-> e]
    ELSE [modules |-> [mods EXCEPT ![1] = Phase1Config(e, run_id)],
          environ |-> load_dotenv(e, d, TRUE)]

\* sys.modules and os.environ after "import phase2_contacts": .env is
\* loaded first, without override, then the configuration is read
ImportPhase2(mods, e, d, run_id) ==
    IF mods[2].imported THEN [modules |-> mods, environ |-> e]
    ELSE LET e2 == load_dotenv(e, d, FALSE)
         IN  [modules |-> [mods EXCEPT ![2] = Phase2Config(e2, run_id)],
              environ |-> e2]

(***************************************************************************)
(* Results of the external enrichment call.                                *)
(***************************************************************************)
\* CompanyInfo; confidence is in thousandths, -1 for None
NoInfo ==
    [present |-> FALSE, company_name |-> "", post_code |-> "", website |-> "",
     email |-> "", numbers |-> <<>>, govuk_url |-> "", source_url |-> "",
     confidence |-> -1, notes |-> ""]

EmptyInfo == [NoInfo EXCEPT !.present = TRUE]

\* website and general inbox, nothing else of the core
SiteInboxInfo ==
    [EmptyInfo EXCEPT !.website = "https://x.com", !.email = "Info@X.com",
                      !.post_code = "AB1 2CD", !.source_url = "https://x.com/contact",
                      !.confidence = 900, !.notes = "ok"]

\* three phone numbers, two of them the same number written differently
PhonesInfo ==
    [EmptyInfo EXCEPT !.numbers = <<"020 7946 0000", "(020) 7946-0000",
                                    "+441612345678", "01610000003">>]

\* one phone entry that cleans to fewer than 7 characters
ShortPhoneInfo == [EmptyInfo EXCEPT !.numbers = <<"ext. 12345">>]

\* registry identity only
IdentityInfo ==
    [EmptyInfo EXCEPT !.company_name = " Acme Ltd ",
                      !.govuk_url = "https://find.gov.uk/acme"]

\* a website without inbox: not enough
PartialInfo ==
    [EmptyInfo EXCEPT !.website = "https://y.org", !.notes = "partial",
                      !.confidence = 456]

\* what one call of run_for_row can do: raise, return None, return a record
Phase1Outcomes ==
    {[raises |-> TRUE, info |-> NoInfo], [raises |-> FALSE, info |-> NoInfo]}
    \cup {[raises |-> FALSE, info |-> x] :
            x \in {EmptyInfo, SiteInboxInfo, PhonesInfo, ShortPhoneInfo,
                   IdentityInfo, PartialInfo}}

\* attempt_has_core with a website alone taken as contactable
attempt_has_core_site_only(info) ==
    IF ~info.present THEN FALSE
    ELSE \/ info.website # ""
         \/ Len(info.numbers) > 0
         \/ info.company_name # "" /\ info.govuk_url # ""

\* attempt_has_core(info)
attempt_has_core(info) ==
    IF ~info.present THEN FALSE
    ELSE LET has_site_inbox == info.website # "" /\ info.email # ""
             has_phone == Len(info.numbers) > 0
             has_identity == info.company_name # "" /\ info.govuk_url # ""
         IN  has_site_inbox \/ has_phone \/ has_identity

\* one item of the agent's "contacts" payload (Phase 2)
Officer(name, title, linkedin, email, src, conf, notes) ==
    [contact_name |-> name, contact_title |-> title, contact_linkedin |-> linkedin,
     contact_email |-> email, source_url |-> src, confidence |-> conf,
     notes |-> notes]

Ann == Officer(" Ann Lee", "Director", "https://linkedin.com/in/ann", "Ann@X.com",
               "https://find.gov.uk/acme/officers", 800, "current")
Bob == Officer("Bob Ray", "CFO", "", "", "", -1, "")
Cy == Officer("Cy Orr", "Owner", "", "", "", -1, "")
Dee == Officer("Dee Poe", "COO", "", "", "", -1, "")
Untitled == Officer("Eve Fay", "   ", "", "", "", -1, "")

\* what one call of the Phase 2 agent can do: raise, or hand back a payload
Phase2Outcomes ==
    {[raises |-> TRUE, payload |-> <<>>]}
    \cup {[raises |-> FALSE, payload |-> x] :
            x \in {<<>>, <<Ann>>, <<Untitled, Bob, Ann>>, <<Untitled>>,
                   <<Ann, Bob, Cy, Dee>>}}

\* the loop of run_for_company that keeps the items with a name and a title
RECURSIVE KeepNamed(_)
KeepNamed(items) ==
    IF items = <<>> THEN <<>>
    ELSE LET item == Head(items)
             name == Strip(item.contact_name)
             title == Strip(item.contact_title)
         IN  (IF name = "" \/ title = "" THEN <<>>
              ELSE << [contact_name |-> name,
                       contact_title |-> title,
                       contact_linkedin |-> Strip(item.contact_linkedin),
                       contact_email |-> Lower(Strip(item.contact_email)),
                       source_url |-> Strip(item.source_url),
                       confidence |-> item.confidence,
                       notes |-> Strip(item.notes)] >>)
             \o KeepNamed(Tail(items))

\* lst[:n]
Take(lst, n) == SubSeq(lst, 1, Min2(n, Len(lst)))

\* run_for_company: the contacts it returns for a payload
run_for_company(payload, target_contacts) == Take(KeepNamed(payload), target_contacts)

(***************************************************************************)
(* The merge of a result into a row.                                       *)
(***************************************************************************)
\* a or b
Or(a, b) == IF a # "" THEN a ELSE b

\* "; ".join([s for s in segs if s])
RECURSIVE JoinSemi(_)
JoinSemi(segs) ==
    IF segs = <<>> THEN ""
    ELSE IF Head(segs) = "" THEN JoinSemi(Tail(segs))
    ELSE LET rest == JoinSemi(Tail(segs))
         IN  IF rest = "" THEN Head(segs) ELSE Head(segs) \o "; " \o rest

\* "; ".join([s for s in note_bits if s]).strip("; "): what strip removes
\* stands at the start of the first kept segment (no segment of the model
\* ends in a blank or a semicolon)
RECURSIVE JoinStripSemi(_)
JoinStripSemi(segs) ==
    IF segs = <<>> THEN ""
    ELSE IF Head(segs) = "" THEN JoinStripSemi(Tail(segs))
    ELSE JoinSemi(<<StripSemi(Head(segs))>> \o Tail(segs))

\* f"Phase{N} attempts: {attempt}/{ROW_RETRIES}"
attempts_note(phase, attempt, retries) ==
    "Phase" \o ToString(phase) \o " attempts: " \o ToString(attempt) \o "/"
        \o ToString(retries)

\* Phase 1, "Apply results": the row after the assignments under "if info:"
\* (oh is the output header: IndexOf(oh, name) is the index
\* ensure_col_exact returned for name, the header only grows at its end)
ApplyInfo(row, oh, info, address, postcode, attempt, retries) ==
    LET r1 == [row EXCEPT
                 ![IndexOf(oh, OUT_COL_ADDRESS)] = Or(@, address)]
        r2 == [r1 EXCEPT
                 ![IndexOf(oh, OUT_COL_POSTCODE)] = Or(@, Or(info.post_code, postcode))]
        r3 == IF info.company_name # ""
              THEN [r2 EXCEPT ![IndexOf(oh, OUT_COL_COMPANY_NAME)] =
                                 Or(@, Strip(info.company_name))]
              ELSE r2
        r4 == IF info.website # ""
              THEN [r3 EXCEPT ![IndexOf(oh, OUT_COL_WEBSITE)] = Or(@, Strip(info.website))]
              ELSE r3
        r5 == IF info.email # ""
              THEN [r4 EXCEPT ![IndexOf(oh, OUT_COL_EMAIL)] = Or(@, Lower(Strip(info.email)))]
              ELSE r4
        r6 == IF info.govuk_url # ""
              THEN [r5 EXCEPT ![IndexOf(oh, OUT_COL_GOVUK_URL)] = Or(@, Strip(info.govuk_url))]
              ELSE r5
        r7 == IF info.source_url # ""
              THEN [r6 EXCEPT ![IndexOf(oh, OUT_COL_SOURCE_URL)] = Or(@, Strip(info.source_url))]
              ELSE r6
        r8 == IF info.confidence # -1 /\ r7[IndexOf(oh, OUT_COL_CONFIDENCE)] = ""
              THEN [r7 EXCEPT ![IndexOf(oh, OUT_COL_CONFIDENCE)] = Fmt2(info.confidence)]
              ELSE r7
        combined == JoinStripSemi(<<r8[IndexOf(oh, OUT_COL_NOTES)], Strip(info.notes),
                                    attempts_note(1, attempt, retries)>>)
    IN  [r8 EXCEPT ![IndexOf(oh, OUT_COL_NOTES)] = combined]

\* Phase 1: the cleaned phone list kept for the row
CleanNumbers(info) == dedupe_keep_order(LongEnough(CleanAll(info.numbers)))

\* Phase 1, lines 229-256: the merged row and its phone list
MergePhase1(row, oh, info, address, postcode, attempt, retries) ==
    IF info.present
    THEN [row |-> ApplyInfo(row, oh, info, address, postcode, attempt, retries),
          nums |-> CleanNumbers(info)]
    ELSE [row |-> row, nums |-> <<>>]

\* f"{base}{suffix}" of ensure_contact_cols
ContactCol(base, k) == IF k = 1 THEN base ELSE base \o " " \o ToString(k)

\* the header after ensure_contact_cols(header, max_contacts)
RECURSIVE ensure_contact_from(_, _, _)
ensure_contact_from(header, k, max_contacts) ==
    IF k > max_contacts THEN header
    ELSE LET h1 == ensure_col_exact(header, ContactCol(OUT_COL_CONTACT_NAME, k))
             h2 == ensure_col_exact(h1, ContactCol(OUT_COL_CONTACT_TITLE, k))
             h3 == ensure_col_exact(h2, ContactCol(OUT_COL_CONTACT_LINKEDIN, k))
             h4 == ensure_col_exact(h3, ContactCol(OUT_COL_CONTACT_EMAIL, k))
         IN  ensure_contact_from(h4, k + 1, max_contacts)

ensure_contact_cols(header, max_contacts) == ensure_contact_from(header, 1, max_contacts)

\* Phase 2: the body of the loop over contacts[:TARGET_CONTACTS], for one slot
ApplyContact(row, oh, slot, contact, attempt, retries) ==
    LET r1 == [row EXCEPT ![IndexOf(oh, ContactCol(OUT_COL_CONTACT_NAME, slot))] =
                             Or(@, contact.contact_name)]
        r2 == [r1 EXCEPT ![IndexOf(oh, ContactCol(OUT_COL_CONTACT_TITLE, slot))] =
                             Or(@, contact.contact_title)]
        r3 == IF contact.contact_linkedin # ""
              THEN [r2 EXCEPT ![IndexOf(oh, ContactCol(OUT_COL_CONTACT_LINKEDIN, slot))] =
                                 Or(@, contact.contact_linkedin)]
              ELSE r2
        r4 == IF contact.contact_email # ""
              THEN [r3 EXCEPT ![IndexOf(oh, ContactCol(OUT_COL_CONTACT_EMAIL, slot))] =
                                 Or(@, contact.contact_email)]
              ELSE r3
        r5 == IF contact.source_url # "" /\ r4[IndexOf(oh, OUT_COL_SOURCE_URL)] = ""
              THEN [r4 EXCEPT ![IndexOf(oh, OUT_COL_SOURCE_URL)] = contact.source_url]
              ELSE r4
        r6 == IF contact.confidence # -1 /\ r5[IndexOf(oh, OUT_COL_CONFIDENCE)] = ""
              THEN [r5 EXCEPT ![IndexOf(oh, OUT_COL_CONFIDENCE)] = Fmt2(contact.confidence)]
              ELSE r5
        note == JoinStripSemi(<<r6[IndexOf(oh, OUT_COL_NOTES)], contact.notes,
                                attempts_note(2, attempt, retries)>>)
    IN  [r6 EXCEPT ![IndexOf(oh, OUT_COL_NOTES)] = note]

\* Phase 2, lines 282-301: the row after the loop over the contacts
RECURSIVE MergeFrom(_, _, _, _, _, _)
MergeFrom(row, oh, contacts, slot, attempt, retries) ==
    IF slot > Len(contacts) THEN row
    ELSE MergeFrom(ApplyContact(row, oh, slot, contacts[slot], attempt, retries),
                   oh, contacts, slot + 1, attempt, retries)

MergePhase2(row, oh, contacts, target_contacts, attempt, retries) ==
    MergeFrom(row, oh, Take(contacts, target_contacts), 1, attempt, retries)

(***************************************************************************)
(* Snapshots and the final phone fill of Phase 1.                          *)
(***************************************************************************)
\* for r, nums in zip(rows, phone_lists): fill_phone_cols(r, header, nums)
RECURSIVE FillAll(_, _, _, _)
FillAll(rows, phone_lists, header, done) ==
    IF rows = <<>> \/ phone_lists = <<>> THEN [rows |-> done \o rows, header |-> header]
    ELSE LET f == fill_phone_cols(Head(rows), header, Head(phone_lists))
         IN  FillAll(Tail(rows), Tail(phone_lists), f.header, Append(done, f.row))

\* a _write_partial_snapshot that pads the rows and leaves their phone
\* cells as they are
PartialSnapshotUnfilled(base_header, processed_rows, phone_lists) ==
    LET header == ensure_phone_cols(base_header, MaxLen(phone_lists))
    IN  [rows |-> [k \in 1..Len(processed_rows) |->
                     PadTo(processed_rows[k], Len(header))],
         header |-> header]

\* the header and rows _write_partial_snapshot hands to write_rows
PartialSnapshot(base_header, processed_rows, phone_lists) ==
    LET header == ensure_phone_cols(base_header, MaxLen(phone_lists))
        rows_copy == [k \in 1..Len(processed_rows) |->
                        PadTo(processed_rows[k], Len(header))]
    IN  FillAll(rows_copy, phone_lists, header, <<>>)

\* a snapshot after the first interval only
SnapshotDueOnce(i, every) == every > 0 /\ i = every

\* SnapshotDue counting rows from 0: (i - 1) % PARTIAL_EVERY == 0
SnapshotDueFromZero(i, every) == every > 0 /\ (i - 1) % every = 0

\* PARTIAL_EVERY > 0 and i % PARTIAL_EVERY == 0
SnapshotDue(i, every) == every > 0 /\ i % every = 0

\* Phase 1, lines 286-292: the final header and rows
FinalTablePhase1(output_header, processed_rows, phone_lists) ==
    FillAll(processed_rows, phone_lists,
            ensure_phone_cols(output_header, MaxLen(phone_lists)), <<>>)

(***************************************************************************)
(* Input tables.                                                           *)
(***************************************************************************)
PlainHeader == <<"ID", "ADDRESS", "POSTCODE">>

\* the header of a file written by an earlier Phase 1 run that found two
\* phone numbers for some row
CoreHeader ==
    <<"ID", "ADDRESS", "POSTCODE", "COMPANY NAME", "WEBSITE", "GENERAL EMAIL",
      "PHONE NUMBER", "GOV.UK URL", "source_url", "confidence", "notes",
      "PHONE NUMBER 2">>

\* a data line with many more cells than any header the phases build
LongLine == <<"r4", "1 Long Rd", "ZZ1 1ZZ">> \o [k \in 1..20 |-> "extra"]

InputKinds == {"plain", "ragged", "core"}

KindHeader(kind) == IF kind = "core" THEN CoreHeader ELSE PlainHeader

KindDialect(kind) == IF kind = "ragged" THEN SemiDialect ELSE CommaDialect

\* the data lines a kind of input cycles through
KindLines(kind) ==
    CASE kind = "plain" ->
           << <<"r1", " 10 Main St", "AB1 2CD">>,
              <<"r2", "5 High St">>,
              <<"r3", "", "   ">> >>
      [] kind = "ragged" ->
           << <<"r5", "2 Low Rd", "ZZ2 2ZZ">>,
              LongLine,
              <<"r9", "", "ZZ9 9ZZ", "Low Co", "", "", "", "", "", "", "kept">> >>
      [] kind = "core" ->
           << <<"r6", "10 Main St", "AB1 2CD", "Old Co", "", "", "0111111111", "",
                "", "0.50", " seen by hand", "0222222222">>,
              <<"r7", "7 Mill Ln", "CD3 4EF", "Acme Ltd", "", "", "", "",
                "https://find.gov.uk/acme", "", "", "">>,
              <<"r8", "", "", "", "", "", "", "", "", "", "", "">> >>

\* an input file of the kind with n data lines, and a whitespace-only line
\* at its end
InputFile(kind, n) ==
    LET pool == KindLines(kind)
    IN  [dialect |-> KindDialect(kind),
         has_header |-> TRUE,
         lines |-> <<KindHeader(kind)>>
                   \o [k \in 1..n |-> pool[((k - 1) % Len(pool)) + 1]]
                   \o << <<"", "   ">> >>,
         writes |-> 0]

(***************************************************************************)
(* State.                                                                  *)
(***************************************************************************)
VARIABLES
    environ,          \* os.environ of the process
    dotenv,           \* the .env file
    modules,          \* module-level configuration of the imported phase modules
    files,            \* the delimited text files on disk, by path
    logs,             \* the checkpoint logs on disk, by path
    frames,           \* the running main() of a phase, by task
    clock,            \* datetime.now(), in seconds
    cli,              \* main.py: position of run_all and its arguments
    jobs,             \* api_server.jobs
    tasks,            \* api_server: position of each run_job background task
    stop_requested,   \* api_server.stop_requested
    current_job_id,   \* api_server.current_job_id
    lib               \* a header and a row in the hands of the helpers of common.py

procVars == <<environ, dotenv, modules, clock, lib>>
diskVars == <<files, logs>>
orchVars == <<cli, jobs, tasks, stop_requested, current_job_id>>
vars == <<environ, dotenv, modules, files, logs, frames, clock, cli, jobs, tasks,
          stop_requested, current_job_id, lib>>

Tasks == {"cli", "j1", "j2"}

\* the helpers of common.py called on their own: the header and the row
\* they were last given (before), the header and row they left, the name or
\* numbers passed, the index returned (as a TLA+ index, 0 when none) and the
\* error raised ("" when none).  input is the header the calls began with.
NoLib ==
    [op |-> "none", input |-> <<>>, before |-> <<>>, header |-> <<>>, row |-> <<>>,
     name |-> "", numbers |-> <<>>, returned |-> 0, error |-> ""]

\* the locals of a phase's main().  Three fields are logs rather than
\* locals: calls holds, per data row, the number of calls started for it,
\* raises counts the calls for the current row that raised, and slept holds
\* the durations asyncio.sleep was given inside the current row's retry
\* loop (durations are in thousandths of a second)
IdleFrame ==
    [pc |-> "idle", phase |-> 0, error |-> "", dialect |-> CommaDialect,
     output_header |-> <<>>, data_rows |-> <<>>, processed_rows |-> <<>>,
     phone_lists |-> <<>>, i |-> 0, row |-> <<>>, address |-> "", postcode |-> "",
     company_name |-> "", attempt |-> 0, info |-> NoInfo, contacts |-> <<>>,
     calls |-> <<>>, raises |-> 0, sleep_s |-> 0, slept |-> <<>>]

\* the frame of a main() that has been called and has not run yet
CalledFrame(phase) == [IdleFrame EXCEPT !.pc = "start", !.phase = phase]

\* a frame that raised
Raised(f, error) == [f EXCEPT !.pc = "raised", !.error = error]

RECURSIVE EnsureAll(_, _)
EnsureAll(header, names) ==
    IF names = <<>> THEN header
    ELSE EnsureAll(ensure_col_exact(header, Head(names)), Tail(names))

\* Phase 1, "Build output header"
Phase1Header(header) ==
    EnsureAll(header,
              <<OUT_COL_ADDRESS, OUT_COL_POSTCODE, OUT_COL_COMPANY_NAME,
                OUT_COL_WEBSITE, OUT_COL_EMAIL, OUT_COL_PHONE, OUT_COL_GOVUK_URL,
                OUT_COL_SOURCE_URL, OUT_COL_CONFIDENCE, OUT_COL_NOTES>>)

\* Phase 2, "Build output header"
Phase2Header(header, target_contacts) ==
    ensure_contact_cols(
        EnsureAll(header,
                  <<OUT_COL_COMPANY_NAME, OUT_COL_GOVUK_URL, OUT_COL_SOURCE_URL,
                    OUT_COL_CONFIDENCE, OUT_COL_NOTES>>),
        target_contacts)

\* the values random.uniform(0.0, 0.4 * sleep_s) is taken to return: the
\* two ends of its range, as tenths of sleep_s
JitterShares == {0, 4}

\* jitter = random.uniform(0.0, 0.4 * sleep_s)
Jitter(sleep_s, share) == (share * sleep_s) \div 10

\* to_sleep = min(RETRY_MAX_SLEEP, sleep_s + jitter)
ToSleep(m, sleep_s, jitter) == Min2(m.RETRY_MAX_SLEEP, sleep_s + jitter)

\* sleep_s = min(RETRY_MAX_SLEEP, sleep_s * RETRY_BACKOFF_BASE)
NextSleep(m, sleep_s) ==
    Min2(m.RETRY_MAX_SLEEP, (sleep_s * m.RETRY_BACKOFF_BASE) \div 1000)

\* RetryLeft with the range taken one too far: range(1, ROW_RETRIES + 2)
RetryLeftOneMore(attempt, retries) == attempt < retries + 1

\* for attempt in range(1, ROW_RETRIES + 1): another attempt follows attempt
RetryLeft(attempt, retries) == attempt < retries

\* an AfterSleep that goes on to the next row when no attempt is left,
\* leaving the row that failed unmerged
AfterSleepSkippingMerge(f, m, share) ==
    [f EXCEPT !.slept = <<>>,
              !.sleep_s = NextSleep(m, @),
              !.pc = IF RetryLeft(f.attempt, m.ROW_RETRIES) THEN "call" ELSE "loop"]

\* an AfterSleep that awaits the call again without counting an attempt
AfterSleepUncounted(f, m, share) == [f EXCEPT !.pc = "await"]

\* lines 221-226 and 209: the frame after the backoff sleep
AfterSleep(f, m, share) ==
    [f EXCEPT !.slept = Append(@, ToSleep(m, f.sleep_s, Jitter(f.sleep_s, share))),
              !.sleep_s = NextSleep(m, @),
              !.pc = IF RetryLeft(f.attempt, m.ROW_RETRIES) THEN "call" ELSE "merge"]

\* Phase1AfterCall without the try/except around the call: a raise leaves
\* main()
Phase1AfterCallUncaught(f, o) ==
    IF o.raises THEN [f EXCEPT !.pc = "raised", !.error = "agent error"]
    ELSE [f EXCEPT !.info = o.info,
                   !.pc = IF attempt_has_core(o.info) THEN "merge" ELSE "sleep"]

\* Phase1AfterCall without `info = None` in the except branch: a raise
\* leaves what the attempt before it returned
Phase1AfterCallKeeping(f, o) ==
    LET info == IF o.raises THEN f.info ELSE o.info
    IN  [f EXCEPT !.info = info,
                  !.raises = IF o.raises THEN @ + 1 ELSE @,
                  !.pc = IF attempt_has_core(info) THEN "merge" ELSE "sleep"]

\* Phase 1, lines 211-225: the frame after run_for_row returned or raised
\* (try/except: a raise leaves info = None); success breaks out of the
\* retry loop, anything else goes on to the backoff sleep
Phase1AfterCall(f, o) ==
    LET info == IF o.raises THEN NoInfo ELSE o.info
    IN  [f EXCEPT !.info = info,
                  !.raises = IF o.raises THEN @ + 1 ELSE @,
                  !.pc = IF attempt_has_core(info) THEN "merge" ELSE "sleep"]

\* Phase 2, lines 262-279: the frame after run_for_company returned or
\* raised (a raise leaves contacts = []); at least one contact breaks out
\* of the retry loop
Phase2AfterCall(f, o, target_contacts) ==
    LET contacts == IF o.raises THEN <<>>
                    ELSE run_for_company(o.payload, target_contacts)
    IN  [f EXCEPT !.contacts = contacts,
                  !.raises = IF o.raises THEN @ + 1 ELSE @,
                  !.pc = IF contacts # <<>> THEN "merge" ELSE "sleep"]

\* row[idx].strip() if len(row) > idx else ""
\* the cell as it is in the file, not stripped
CellUnstripped(row, idx) == IF Len(row) >= idx THEN row[idx] ELSE ""

CellStripped(row, idx) == IF Len(row) >= idx THEN Strip(row[idx]) ELSE ""

\* main() up to the row loop without the test of lines 154-155
BeginPhaseAnyHeader(f, m, e, fsys) ==
    IF e["GOOGLE_API_KEY"] = "" THEN Raised(f, "RuntimeError")
    ELSE IF m.INPUT_CSV \notin DOMAIN fsys THEN Raised(f, "FileNotFoundError")
    ELSE LET rows == read_rows(fsys[m.INPUT_CSV])
             sniffed == sniff_dialect_and_header(fsys[m.INPUT_CSV])
         IN  IF rows = <<>> THEN [f EXCEPT !.pc = "returned"]
             ELSE [f EXCEPT !.pc = "loop",
                            !.dialect = sniffed.dialect,
                            !.output_header =
                                IF f.phase = 1 THEN Phase1Header(rows[1])
                                ELSE Phase2Header(rows[1], m.TARGET_CONTACTS),
                            !.data_rows = Tail(rows)]

\* main() of either phase up to the row loop: the start-up checks, the read
\* of the input and the output header
BeginPhase(f, m, e, fsys) ==
    IF e["GOOGLE_API_KEY"] = "" THEN Raised(f, "RuntimeError")
    ELSE IF m.INPUT_CSV \notin DOMAIN fsys THEN Raised(f, "FileNotFoundError")
    ELSE LET rows == read_rows(fsys[m.INPUT_CSV])
             sniffed == sniff_dialect_and_header(fsys[m.INPUT_CSV])
         IN  IF rows = <<>> THEN [f EXCEPT !.pc = "returned"]
             ELSE IF ~sniffed.has_header THEN Raised(f, "ValueError")
             ELSE [f EXCEPT !.pc = "loop",
                            !.dialect = sniffed.dialect,
                            !.output_header =
                                IF f.phase = 1 THEN Phase1Header(rows[1])
                                ELSE Phase2Header(rows[1], m.TARGET_CONTACTS),
                            !.data_rows = Tail(rows)]

\* what a write to disk can come to: it succeeds, it fails before the file is
\* touched (open raises), or it fails after open(path, "w") has emptied the
\* file
WriteOutcomes == {"ok", "fails", "torn"}

\* the file at path after a write that failed once the file was open
TornFile(fsys, path) ==
    [q \in DOMAIN fsys \cup {path} |->
        IF q = path
        THEN [dialect |-> CommaDialect, has_header |-> FALSE, lines |-> <<>>,
              writes |-> IF path \in DOMAIN fsys THEN fsys[path].writes ELSE 0]
        ELSE fsys[q]]

\* write_checkpoint(record) with its try/except: a record that cannot be
\* appended is dropped
write_checkpoint_guarded(lg, path, record, outcome) ==
    IF outcome = "ok" THEN write_checkpoint(lg, path, record) ELSE lg

\* a write of a snapshot inside try/except: the files it leaves
GuardedWrite(fsys, written, path, outcome) ==
    CASE outcome = "ok" -> written
      [] outcome = "fails" -> fsys
      [] OTHER -> TornFile(fsys, path)

\* main() after a checkpoint append and a snapshot write that raised
\* inside its loop, had nothing caught them
AfterGuardedWritesUncaught(f, checkpoint, snapshot) ==
    IF checkpoint # "ok" \/ snapshot # "ok" THEN Raised(f, "OSError") ELSE f

\* the frame after a snapshot code that works on the live header instead of
\* a copy of it: the phone columns of the snapshot stay in output_header
AfterWritesOnLiveHeader(f, checkpoint, snapshot) ==
    [f EXCEPT !.output_header = ensure_phone_cols(@, MaxLen(f.phone_lists))]

\* main() after the checkpoint append and the snapshot write of a row:
\* whatever they raised was caught and dropped (phase1 116-121, 198-202,
\* 279-284; phase2 181-186, 189-197)
AfterGuardedWrites(f, checkpoint, snapshot) == f

\* the files after the periodic autosave of Phase 1, when it is due
AutosavePhase1(fsys, m, f, i, rows, lists) ==
    IF SnapshotDue(i, m.PARTIAL_EVERY)
    THEN LET snap == PartialSnapshot(f.output_header, rows, lists)
         IN  write_rows(fsys, m.PARTIAL_CSV, f.dialect, snap.header, snap.rows)
    ELSE fsys

\* the files after the periodic autosave of Phase 2, when it is due
AutosavePhase2(fsys, m, f, i, rows) ==
    IF SnapshotDue(i, m.PARTIAL_EVERY)
    THEN write_rows(fsys, m.PARTIAL_CSV, f.dialect, f.output_header, rows)
    ELSE fsys

(***************************************************************************)
(* phase1_discovery.main                                                   *)
(***************************************************************************)
\* lines 142-178: start-up checks, read, output header
P1_Start(t) ==
    /\ frames[t].pc = "start" /\ frames[t].phase = 1
    /\ frames' = [frames EXCEPT ![t] = BeginPhase(@, modules[1], environ, files)]
    /\ UNCHANGED <<procVars, diskVars, orchVars>>

\* lines 180-208: the next row of the loop, up to the continue of a blank
\* row or to the retry loop
P1_NextRowWith(t, checkpoint, snapshot) ==
    LET f == frames[t]
        m == modules[1]
        i == f.i + 1
        due == IF SnapshotDue(i, m.PARTIAL_EVERY) THEN snapshot ELSE "ok"
        row == PadTo(f.data_rows[i], Len(f.output_header))
        address == CellStripped(row, IndexOf(f.output_header, OUT_COL_ADDRESS))
        postcode == CellStripped(row, IndexOf(f.output_header, OUT_COL_POSTCODE))
        rows2 == Append(f.processed_rows, row)
        lists2 == Append(f.phone_lists, <<>>)
    IN  /\ f.pc = "loop" /\ f.phase = 1
        /\ f.i < Len(f.data_rows)
        /\ IF address = "" /\ postcode = ""
           THEN /\ frames' = [frames EXCEPT ![t] =
                                AfterGuardedWrites(
                                    [f EXCEPT !.i = i, !.row = row,
                                              !.address = address,
                                              !.postcode = postcode,
                                              !.processed_rows = rows2,
                                              !.phone_lists = lists2,
                                              !.calls = Append(@, 0)],
                                    checkpoint, due)]
                /\ logs' = write_checkpoint_guarded(logs, m.CHECKPOINT_JSONL,
                                [row_index |-> i, output |-> "null",
                                 note |-> "skipped blank row"], checkpoint)
                /\ files' = GuardedWrite(files,
                                AutosavePhase1(files, m, f, i, rows2, lists2),
                                m.PARTIAL_CSV, due)
           ELSE /\ frames' = [frames EXCEPT ![t] =
                                [f EXCEPT !.i = i, !.row = row,
                                          !.address = address, !.postcode = postcode,
                                          !.info = NoInfo, !.attempt = 0,
                                          !.sleep_s = m.RETRY_START_SLEEP,
                                          !.calls = Append(@, 0), !.raises = 0,
                                          !.pc = IF RetryLeft(0, m.ROW_RETRIES)
                                                 THEN "call" ELSE "merge"]]
                /\ UNCHANGED diskVars
        /\ UNCHANGED <<procVars, orchVars>>

\* the same when every write succeeds
P1_NextRow(t) == P1_NextRowWith(t, "ok", "ok")

\* lines 209-212: an attempt starts, run_for_row is awaited
P1_StartCall(t) ==
    LET f == frames[t]
    IN  /\ f.pc = "call" /\ f.phase = 1
        /\ frames' = [frames EXCEPT ![t] =
                        [f EXCEPT !.attempt = @ + 1,
                                  !.calls[f.i] = @ + 1,
                                  !.pc = "await"]]
        /\ UNCHANGED <<procVars, diskVars, orchVars>>

\* lines 212-225: run_for_row returns or raises; success ends the loop,
\* anything else goes to the backoff sleep
P1_CallReturns(t) ==
    LET f == frames[t]
    IN  /\ f.pc = "await" /\ f.phase = 1
        /\ \E o \in Phase1Outcomes :
             frames' = [frames EXCEPT ![t] = Phase1AfterCall(f, o)]
        /\ UNCHANGED <<procVars, diskVars, orchVars>>

\* lines 221-226, 209: the jitter is drawn and the sleep is done; the next
\* attempt, or the end of the retry loop
P1_Wake(t) ==
    LET f == frames[t]
    IN  /\ f.pc = "sleep" /\ f.phase = 1
        /\ \E share \in JitterShares :
             frames' = [frames EXCEPT ![t] = AfterSleep(f, modules[1], share)]
        /\ UNCHANGED <<procVars, diskVars, orchVars>>

\* lines 228-284: apply the result, append the row, checkpoint, autosave
P1_MergeWith(t, checkpoint, snapshot) ==
    LET f == frames[t]
        m == modules[1]
        due == IF SnapshotDue(f.i, m.PARTIAL_EVERY) THEN snapshot ELSE "ok"
        merged == MergePhase1(f.row, f.output_header, f.info, f.address, f.postcode,
                              f.attempt, m.ROW_RETRIES)
        rows2 == Append(f.processed_rows, merged.row)
        lists2 == Append(f.phone_lists, merged.nums)
    IN  /\ f.pc = "merge" /\ f.phase = 1
        /\ frames' = [frames EXCEPT ![t] =
                        AfterGuardedWrites(
                            [f EXCEPT !.row = merged.row,
                                      !.processed_rows = rows2,
                                      !.phone_lists = lists2,
                                      !.slept = <<>>,
                                      !.pc = "loop"],
                            checkpoint, due)]
        /\ logs' = write_checkpoint_guarded(logs, m.CHECKPOINT_JSONL,
                        [row_index |-> f.i, output |-> "row"], checkpoint)
        /\ files' = GuardedWrite(files,
                        AutosavePhase1(files, m, f, f.i, rows2, lists2),
                        m.PARTIAL_CSV, due)
        /\ UNCHANGED <<procVars, orchVars>>

\* the same when every write succeeds
P1_Merge(t) == P1_MergeWith(t, "ok", "ok")

\* lines 286-295: the loop is over; phone columns, phone fill, final write
P1_Finish(t) ==
    LET f == frames[t]
        m == modules[1]
        final == FinalTablePhase1(f.output_header, f.processed_rows, f.phone_lists)
    IN  /\ f.pc = "loop" /\ f.phase = 1
        /\ f.i = Len(f.data_rows)
        /\ frames' = [frames EXCEPT ![t] =
                        [f EXCEPT !.output_header = final.header,
                                  !.processed_rows = final.rows,
                                  !.pc = "done"]]
        /\ files' = write_rows(files, m.OUTPUT_CSV, f.dialect, final.header, final.rows)
        /\ UNCHANGED <<procVars, logs, orchVars>>

(***************************************************************************)
(* phase2_contacts.main                                                    *)
(***************************************************************************)
\* lines 203-234: start-up checks, read, output header
P2_Start(t) ==
    /\ frames[t].pc = "start" /\ frames[t].phase = 2
    /\ frames' = [frames EXCEPT ![t] = BeginPhase(@, modules[2], environ, files)]
    /\ UNCHANGED <<procVars, diskVars, orchVars>>

\* lines 236-258: the next row, up to the continue of a row without company
\* name or to the retry loop
P2_NextRowWith(t, checkpoint, snapshot) ==
    LET f == frames[t]
        m == modules[2]
        i == f.i + 1
        due == IF SnapshotDue(i, m.PARTIAL_EVERY) THEN snapshot ELSE "ok"
        row == PadTo(f.data_rows[i], Len(f.output_header))
        company_name == Strip(row[IndexOf(f.output_header, OUT_COL_COMPANY_NAME)])
        rows2 == Append(f.processed_rows, row)
    IN  /\ f.pc = "loop" /\ f.phase = 2
        /\ f.i < Len(f.data_rows)
        /\ IF company_name = ""
           THEN /\ frames' = [frames EXCEPT ![t] =
                                AfterGuardedWrites(
                                    [f EXCEPT !.i = i, !.row = row,
                                              !.company_name = company_name,
                                              !.processed_rows = rows2,
                                              !.calls = Append(@, 0)],
                                    checkpoint, due)]
                /\ logs' = write_checkpoint_guarded(logs, m.CHECKPOINT_JSONL,
                                [row_index |-> i, result |-> "null",
                                 note |-> "Skipped (missing company_name)"],
                                checkpoint)
                /\ files' = GuardedWrite(files, AutosavePhase2(files, m, f, i, rows2),
                                         m.PARTIAL_CSV, due)
           ELSE /\ frames' = [frames EXCEPT ![t] =
                                [f EXCEPT !.i = i, !.row = row,
                                          !.company_name = company_name,
                                          !.contacts = <<>>, !.attempt = 0,
                                          !.sleep_s = m.RETRY_START_SLEEP,
                                          !.calls = Append(@, 0), !.raises = 0,
                                          !.pc = IF RetryLeft(0, m.ROW_RETRIES)
                                                 THEN "call" ELSE "merge"]]
                /\ UNCHANGED diskVars
        /\ UNCHANGED <<procVars, orchVars>>

\* the same when every write succeeds
P2_NextRow(t) == P2_NextRowWith(t, "ok", "ok")

\* lines 260-263: an attempt starts, run_for_company is awaited
P2_StartCall(t) ==
    LET f == frames[t]
    IN  /\ f.pc = "call" /\ f.phase = 2
        /\ frames' = [frames EXCEPT ![t] =
                        [f EXCEPT !.attempt = @ + 1,
                                  !.calls[f.i] = @ + 1,
                                  !.pc = "await"]]
        /\ UNCHANGED <<procVars, diskVars, orchVars>>

\* lines 263-278: run_for_company returns or raises; at least one contact
\* ends the loop, anything else goes to the backoff sleep
P2_CallReturns(t) ==
    LET f == frames[t]
    IN  /\ f.pc = "await" /\ f.phase = 2
        /\ \E o \in Phase2Outcomes :
             frames' = [frames EXCEPT ![t] =
                          Phase2AfterCall(f, o, modules[2].TARGET_CONTACTS)]
        /\ UNCHANGED <<procVars, diskVars, orchVars>>

\* lines 274-279, 260: the jitter is drawn and the sleep is done; the next
\* attempt, or the end of the retry loop
P2_Wake(t) ==
    LET f == frames[t]
    IN  /\ f.pc = "sleep" /\ f.phase = 2
        /\ \E share \in JitterShares :
             frames' = [frames EXCEPT ![t] = AfterSleep(f, modules[2], share)]
        /\ UNCHANGED <<procVars, diskVars, orchVars>>

\* lines 281-318: write the contacts, append the row, checkpoint, autosave
P2_MergeWith(t, checkpoint, snapshot) ==
    LET f == frames[t]
        m == modules[2]
        due == IF SnapshotDue(f.i, m.PARTIAL_EVERY) THEN snapshot ELSE "ok"
        row == MergePhase2(f.row, f.output_header, f.contacts, m.TARGET_CONTACTS,
                           f.attempt, m.ROW_RETRIES)
        rows2 == Append(f.processed_rows, row)
    IN  /\ f.pc = "merge" /\ f.phase = 2
        /\ frames' = [frames EXCEPT ![t] =
                        AfterGuardedWrites(
                            [f EXCEPT !.row = row, !.processed_rows = rows2,
                                      !.slept = <<>>,
                                      !.pc = "loop"],
                            checkpoint, due)]
        /\ logs' = write_checkpoint_guarded(logs, m.CHECKPOINT_JSONL,
                        [row_index |-> f.i, contacts_found |-> Len(f.contacts)],
                        checkpoint)
        /\ files' = GuardedWrite(files, AutosavePhase2(files, m, f, f.i, rows2),
                                 m.PARTIAL_CSV, due)
        /\ UNCHANGED <<procVars, orchVars>>

\* the same when every write succeeds
P2_Merge(t) == P2_MergeWith(t, "ok", "ok")

\* lines 320-331: the loop is over; final write, then the same table once
\* more to the partial path
P2_FinishWith(t, snapshot) ==
    LET f == frames[t]
        m == modules[2]
        header == ensure_phone_cols(f.output_header, 1)
        written == write_rows(files, m.OUTPUT_CSV, f.dialect, header, f.processed_rows)
    IN  /\ f.pc = "loop" /\ f.phase = 2
        /\ f.i = Len(f.data_rows)
        /\ frames' = [frames EXCEPT ![t] =
                        [f EXCEPT !.output_header = header, !.pc = "done"]]
        /\ files' = GuardedWrite(written,
                        write_rows(written, m.PARTIAL_CSV, f.dialect, header,
                                   f.processed_rows),
                        m.PARTIAL_CSV, snapshot)
        /\ UNCHANGED <<procVars, logs, orchVars>>

\* the same when every write succeeds
P2_Finish(t) == P2_FinishWith(t, "ok")

\* one step of a phase's main() in task t
PhaseStep(t) ==
    \/ P1_Start(t)
    \/ P1_NextRow(t)
    \/ P1_StartCall(t)
    \/ P1_CallReturns(t)
    \/ P1_Wake(t)
    \/ P1_Merge(t)
    \/ P1_Finish(t)
    \/ P2_Start(t)
    \/ P2_NextRow(t)
    \/ P2_StartCall(t)
    \/ P2_CallReturns(t)
    \/ P2_Wake(t)
    \/ P2_Merge(t)
    \/ P2_Finish(t)

(***************************************************************************)
(* A phase run on its own: "python phase1_discovery.py" or                 *)
(* "python phase2_contacts.py" in a directory holding input.csv.           *)
(***************************************************************************)
NoJob ==
    [status |-> "", phase |-> "", input_file |-> "", output_file_phase1 |-> "",
     output_file_phase2 |-> "", error |-> ""]

IdleOrch ==
    /\ cli = [pc |-> "idle", input |-> "", core_output |-> "", final_output |-> "",
              row_retries |-> 0, skip_phase1 |-> FALSE, skip_phase2 |-> FALSE]
    /\ jobs = [j \in {} |-> NoJob]
    /\ tasks = [j \in {} |-> "idle"]
    /\ stop_requested = FALSE
    /\ current_job_id = ""

\* the script of Phase 1 is run: its module body, then asyncio.run(main())
LaunchPhase1 ==
    LET imp == ImportPhase1(modules, environ, dotenv, clock)
    IN  /\ \A t \in Tasks : frames[t].pc = "idle"
        /\ ~modules[1].imported /\ ~modules[2].imported
        /\ modules' = imp.modules
        /\ environ' = imp.environ
        /\ frames' = [frames EXCEPT !["cli"] = CalledFrame(1)]
        /\ UNCHANGED <<dotenv, clock, lib, diskVars, orchVars>>

\* the script of Phase 2 is run: its module body, then asyncio.run(main())
LaunchPhase2 ==
    LET imp == ImportPhase2(modules, environ, dotenv, clock)
    IN  /\ \A t \in Tasks : frames[t].pc = "idle"
        /\ ~modules[1].imported /\ ~modules[2].imported
        /\ modules' = imp.modules
        /\ environ' = imp.environ
        /\ frames' = [frames EXCEPT !["cli"] = CalledFrame(2)]
        /\ UNCHANGED <<dotenv, clock, lib, diskVars, orchVars>>

Init ==
    /\ \E every \in 0..MaxEvery, retries \in 0..MaxRetries :
         environ = [NoEnv EXCEPT !["GOOGLE_API_KEY"] = "key",
                                 !["INPUT_CSV_PHASE2"] = "input.csv",
                                 !["PARTIAL_EVERY"] = ToString(every),
                                 !["ROW_RETRIES"] = ToString(retries)]
    /\ dotenv = NoEnv
    /\ modules = [ph \in 1..2 |-> NotImported]
    /\ \E kind \in InputKinds, n \in 0..MaxRows :
         files = [q \in {"input.csv"} |-> InputFile(kind, n)]
    /\ logs = [q \in {} |-> <<>>]
    /\ frames = [t \in Tasks |-> IdleFrame]
    /\ clock = 0
    /\ lib = NoLib
    /\ IdleOrch

Next ==
    \/ LaunchPhase1
    \/ LaunchPhase2
    \/ PhaseStep("cli")

Spec == Init /\ [][Next]_vars

(***************************************************************************)
(* A phase run on its own that is never abandoned: asyncio.run drives the  *)
(* one coroutine of main() until it returns, every awaited enrichment call *)
(* returns or raises, and every sleep ends.  The retry limit ranges over   *)
(* negative, zero and positive values.                                     *)
(***************************************************************************)
InitLive ==
    /\ \E retries \in -1..MaxRetries :
         environ = [NoEnv EXCEPT !["GOOGLE_API_KEY"] = "key",
                                 !["INPUT_CSV_PHASE2"] = "input.csv",
                                 !["PARTIAL_EVERY"] = "1",
                                 !["ROW_RETRIES"] = ToString(retries)]
    /\ dotenv = NoEnv
    /\ modules = [ph \in 1..2 |-> NotImported]
    /\ \E kind \in InputKinds, n \in 0..MaxRows :
         files = [q \in {"input.csv"} |-> InputFile(kind, n)]
    /\ logs = [q \in {} |-> <<>>]
    /\ frames = [t \in Tasks |-> IdleFrame]
    /\ clock = 0
    /\ lib = NoLib
    /\ IdleOrch

\* main() has been called and has neither returned nor raised: its next
\* step can be taken
Unfinished(t) == frames[t].pc \in {"start", "loop", "call", "await", "sleep", "merge"}

\* Weak fairness of the steps of main(), WF_vars(PhaseStep("cli")), written
\* out with Unfinished("cli") for ENABLED <<PhaseStep("cli")>>_vars.
SpecLive ==
    /\ InitLive
    /\ [][Next]_vars
    /\ ([]<>(~Unfinished("cli")) \/ []<><<PhaseStep("cli")>>_vars)

(***************************************************************************)
(* A phase run on its own under a configured backoff: start sleep,         *)
(* multiplier and maximum sleep are set in the environment.                *)
(***************************************************************************)
InitBackoff ==
    /\ \E retries \in 1..MaxRetries, start \in {"1.0", "2.0"},
          base \in {"0.5", "1.0", "1.8"}, most \in {"1.0", "12.0"} :
         environ = [NoEnv EXCEPT !["GOOGLE_API_KEY"] = "key",
                                 !["INPUT_CSV_PHASE2"] = "input.csv",
                                 !["PARTIAL_EVERY"] = "0",
                                 !["ROW_RETRIES"] = ToString(retries),
                                 !["RETRY_START_SLEEP"] = start,
                                 !["RETRY_BACKOFF_BASE"] = base,
                                 !["RETRY_MAX_SLEEP"] = most]
    /\ dotenv = NoEnv
    /\ modules = [ph \in 1..2 |-> NotImported]
    /\ \E n \in 1..MaxRows : files = [q \in {"input.csv"} |-> InputFile("core", n)]
    /\ logs = [q \in {} |-> <<>>]
    /\ frames = [t \in Tasks |-> IdleFrame]
    /\ clock = 0
    /\ lib = NoLib
    /\ IdleOrch

SpecBackoff == InitBackoff /\ [][Next]_vars

(***************************************************************************)
(* Runs over inputs and environments the start-up checks and the blank-row *)
(* test tell apart.                                                        *)
(***************************************************************************)
\* lines of an earlier Phase 1 output: one with nothing to ask for (its
\* address is whitespace only) and one with an address and a company name
GapLines ==
    << <<"r8", "   ", "", "", "", "", "", "", "", "", "", "">>,
       <<"r7", "7 Mill Ln", "CD3 4EF", "Acme Ltd", "", "", "", "",
         "https://find.gov.uk/acme", "", "", "">> >>

\* lines of digits only, in which no header is detected
BareLines == << <<"1", "2", "3">>, <<"4", "5", "6">> >>

\* a header that names its address and postcode columns in its own way
TitledHeader == <<"ID", "Address", "post_code">>

InputShapes == {"gaps", "bare", "empty", "absent", "titled"}

\* the input file of a shape: "gaps" has a header and n data lines, "bare"
\* has n lines and no detectable header, "empty" has whitespace-only lines,
\* "titled" has the header above and n data lines with an address
ShapeFile(shape, n) ==
    LET pool == CASE shape = "gaps" -> GapLines
                  [] shape = "titled" -> KindLines("plain")
                  [] OTHER -> BareLines
        body == [k \in 1..n |-> pool[((k - 1) % Len(pool)) + 1]]
    IN  [dialect |-> CommaDialect,
         has_header |-> (shape \in {"gaps", "titled"}),
         lines |-> CASE shape = "gaps" -> <<CoreHeader>> \o body
                     [] shape = "titled" -> <<TitledHeader>> \o body
                     [] shape = "bare" -> body
                     [] OTHER -> << <<"", "   ">> >>,
         writes |-> 0]

InitInputs ==
    /\ \E every \in 0..MaxEvery, retries \in 1..MaxRetries, key \in {"key", ""} :
         environ = [NoEnv EXCEPT !["GOOGLE_API_KEY"] = key,
                                 !["INPUT_CSV_PHASE2"] = "input.csv",
                                 !["PARTIAL_EVERY"] = ToString(every),
                                 !["ROW_RETRIES"] = ToString(retries)]
    /\ dotenv = NoEnv
    /\ modules = [ph \in 1..2 |-> NotImported]
    /\ \E shape \in InputShapes, n \in 1..MaxRows :
         files = [q \in (IF shape = "absent" THEN {} ELSE {"input.csv"}) |->
                    ShapeFile(shape, n)]
    /\ logs = [q \in {} |-> <<>>]
    /\ frames = [t \in Tasks |-> IdleFrame]
    /\ clock = 0
    /\ lib = NoLib
    /\ IdleOrch

SpecInputs == InitInputs /\ [][Next]_vars

(***************************************************************************)
(* Runs on a disk where a checkpoint append or a snapshot write can fail.  *)
(* The final write_rows(OUTPUT_CSV, ...) is outside every try and is taken *)
(* to succeed.                                                             *)
(***************************************************************************)
PhaseStepOnFailingDisk(t) ==
    \/ P1_Start(t)
    \/ \E checkpoint \in {"ok", "fails"}, snapshot \in WriteOutcomes :
            P1_NextRowWith(t, checkpoint, snapshot)
    \/ P1_StartCall(t)
    \/ P1_CallReturns(t)
    \/ P1_Wake(t)
    \/ \E checkpoint \in {"ok", "fails"}, snapshot \in WriteOutcomes :
            P1_MergeWith(t, checkpoint, snapshot)
    \/ P1_Finish(t)
    \/ P2_Start(t)
    \/ \E checkpoint \in {"ok", "fails"}, snapshot \in WriteOutcomes :
            P2_NextRowWith(t, checkpoint, snapshot)
    \/ P2_StartCall(t)
    \/ P2_CallReturns(t)
    \/ P2_Wake(t)
    \/ \E checkpoint \in {"ok", "fails"}, snapshot \in WriteOutcomes :
            P2_MergeWith(t, checkpoint, snapshot)
    \/ \E snapshot \in WriteOutcomes : P2_FinishWith(t, snapshot)

NextOnFailingDisk ==
    \/ LaunchPhase1
    \/ LaunchPhase2
    \/ PhaseStepOnFailingDisk("cli")

InitFailingDisk ==
    /\ \E every \in 0..MaxEvery, retries \in 1..MaxRetries :
         environ = [NoEnv EXCEPT !["GOOGLE_API_KEY"] = "key",
                                 !["INPUT_CSV_PHASE2"] = "input.csv",
                                 !["PARTIAL_EVERY"] = ToString(every),
                                 !["ROW_RETRIES"] = ToString(retries)]
    /\ dotenv = NoEnv
    /\ modules = [ph \in 1..2 |-> NotImported]
    /\ \E n \in 1..MaxRows :
         files = [q \in {"input.csv"} |-> ShapeFile("gaps", n)]
    /\ logs = [q \in {} |-> <<>>]
    /\ frames = [t \in Tasks |-> IdleFrame]
    /\ clock = 0
    /\ lib = NoLib
    /\ IdleOrch

SpecFailingDisk == InitFailingDisk /\ [][NextOnFailingDisk]_vars

(***************************************************************************)
(* The header helpers of common.py called on their own, in any order, on a *)
(* header and a row drawn from small sets.                                 *)
(***************************************************************************)
MaxPhones == 3

\* headers to begin with: none, short ones, one with a name twice and a
\* numbered phone slot without the first, and one of an earlier output
LibHeaders ==
    {<<>>, <<"ID">>, PlainHeader, <<"ID", PhoneCol(2), "ID">>, CoreHeader}

LibRows == {<<>>, <<"r1", "1 Long Rd", "ZZ1 1ZZ">>, KindLines("core")[1]}

LibNames == {"ID", OUT_COL_PHONE, PhoneCol(2), OUT_COL_NOTES}

\* a list of n distinct phone numbers
LibNumbers(n) == [k \in 1..n |-> "0700000000" \o ToString(k)]

\* what fill_phone_cols(row, header, numbers) raises before it changes
\* anything: header.index fails without the phone column, row[...] fails
\* on a row that ends before it
fill_phone_cols_raises(row, header, numbers) ==
    IF ~Contains(header, OUT_COL_PHONE) THEN "ValueError"
    ELSE IF numbers # <<>> /\ Len(row) < IndexOf(header, OUT_COL_PHONE)
         THEN "IndexError"
         ELSE ""

Lib_ensure_col_exact ==
    \E name \in LibNames :
        /\ lib.op # "none"
        /\ lib' = [lib EXCEPT !.op = "ensure_col_exact",
                              !.before = lib.header,
                              !.header = ensure_col_exact(lib.header, name),
                              !.name = name,
                              !.returned = ensure_col_index(lib.header, name),
                              !.error = ""]
        /\ UNCHANGED <<environ, dotenv, modules, clock, diskVars, frames, orchVars>>

Lib_ensure_phone_cols ==
    \E max_phones \in 0..MaxPhones :
        /\ lib.op # "none"
        /\ lib' = [lib EXCEPT !.op = "ensure_phone_cols",
                              !.before = lib.header,
                              !.header = ensure_phone_cols(lib.header, max_phones),
                              !.name = "", !.returned = 0, !.error = ""]
        /\ UNCHANGED <<environ, dotenv, modules, clock, diskVars, frames, orchVars>>

Lib_fill_phone_cols ==
    \E n \in 0..MaxPhones :
        LET numbers == LibNumbers(n)
            error == fill_phone_cols_raises(lib.row, lib.header, numbers)
            filled == fill_phone_cols(lib.row, lib.header, numbers)
        IN  /\ lib.op # "none"
            /\ lib' = IF error # ""
                      THEN [lib EXCEPT !.op = "fill_phone_cols",
                                       !.before = lib.header,
                                       !.numbers = numbers,
                                       !.name = "", !.returned = 0,
                                       !.error = error]
                      ELSE [lib EXCEPT !.op = "fill_phone_cols",
                                       !.before = lib.header,
                                       !.header = filled.header,
                                       !.row = filled.row,
                                       !.numbers = numbers,
                                       !.name = "", !.returned = 0,
                                       !.error = ""]
            /\ UNCHANGED <<environ, dotenv, modules, clock, diskVars, frames, orchVars>>

NextHelpers ==
    \/ Lib_ensure_col_exact
    \/ Lib_ensure_phone_cols
    \/ Lib_fill_phone_cols

InitHelpers ==
    /\ environ = NoEnv
    /\ dotenv = NoEnv
    /\ modules = [ph \in 1..2 |-> NotImported]
    /\ files = [q \in {} |-> <<>>]
    /\ logs = [q \in {} |-> <<>>]
    /\ frames = [t \in Tasks |-> IdleFrame]
    /\ clock = 0
    /\ \E header \in LibHeaders, row \in LibRows :
         lib = [NoLib EXCEPT !.op = "given", !.input = header, !.before = header,
                             !.header = header, !.row = row]
    /\ IdleOrch

SpecHelpers == InitHelpers /\ [][NextHelpers]_vars

(***************************************************************************)
(* The phone list of a Phase 1 row: the numbers of a result are cleaned,   *)
(* the short ones dropped, the rest deduplicated (lines 251-254) and, at   *)
(* the end of the phase, written into the row's phone family.              *)
(***************************************************************************)
\* the phone entries a result may list
RawPhones == {"020 7946 0000", "(020) 7946-0000", "ext. 12345", "+44 1234", "01610000003"}

\* the lists of at most n entries
RawLists(n) == UNION {[1..k -> RawPhones] : k \in 0..n}

Lib_phone_list ==
    LET nums == CleanNumbers([EmptyInfo EXCEPT !.numbers = lib.input])
        filled == fill_phone_cols(lib.row, ensure_phone_cols(lib.before, Len(nums)), nums)
    IN  /\ lib.op = "given"
        /\ lib' = [lib EXCEPT !.op = "phone_list", !.numbers = nums,
                              !.header = filled.header, !.row = filled.row]
        /\ UNCHANGED <<environ, dotenv, modules, clock, diskVars, frames, orchVars>>

InitPhones ==
    /\ environ = NoEnv
    /\ dotenv = NoEnv
    /\ modules = [ph \in 1..2 |-> NotImported]
    /\ files = [q \in {} |-> <<>>]
    /\ logs = [q \in {} |-> <<>>]
    /\ frames = [t \in Tasks |-> IdleFrame]
    /\ clock = 0
    /\ \E raw \in RawLists(MaxPhones) :
         lib = [NoLib EXCEPT !.op = "given", !.input = raw,
                             !.before = Phase1Header(PlainHeader),
                             !.header = Phase1Header(PlainHeader),
                             !.row = PadTo(<<"r1", "1 Long Rd", "ZZ1 1ZZ">>,
                                           Len(Phase1Header(PlainHeader)))]
    /\ IdleOrch

SpecPhones == InitPhones /\ [][Lib_phone_list]_vars

(***************************************************************************)
(* The orchestrators: main.py (one process per command line) and           *)
(* api_server.py (one server process, one background task per job).        *)
(***************************************************************************)
JobIds == {"j1", "j2"}

\* an Ended that does not wait for the awaited main(): true of a phase
\* that is still in its row loop
EndedOrRunning(f) == f.pc \notin {"idle", "start"}

\* main() of a phase has returned or raised
Ended(f) == f.pc \in {"done", "returned", "raised"}

\* str((OUTPUT_DIR / f"{job_id}_{name}.csv").absolute())
JobPath(j, name) == "output/" \o j \o "_" \o name \o ".csv"

\* main.py, set_env_for_phases: the file names and the retry limit
set_env_for_phases(e, args) ==
    [e EXCEPT !["INPUT_CSV"] = args.input,
              !["OUTPUT_CSV"] = args.core_output,
              !["INPUT_CSV_PHASE2"] = args.core_output,
              !["OUTPUT_CSV_PHASE2"] = args.final_output,
              !["ROW_RETRIES"] = ToString(args.row_retries)]

\* main.py, run_all from "# Phase 2" to "await phase2_main()": the new
\* position of the command line, the modules, the environment and the frame
CliEnterPhase2(c, mods, e, d, run_id, fsys, f) ==
    IF c.skip_phase2
    THEN [cli |-> [c EXCEPT !.pc = "finished"], modules |-> mods, environ |-> e,
          frame |-> f]
    ELSE LET imp == ImportPhase2(mods, e, d, run_id)
         IN  IF c.core_output \notin DOMAIN fsys
             THEN [cli |-> [c EXCEPT !.pc = "exit1"], modules |-> imp.modules,
                   environ |-> imp.environ, frame |-> f]
             ELSE [cli |-> [c EXCEPT !.pc = "phase2"], modules |-> imp.modules,
                   environ |-> imp.environ, frame |-> CalledFrame(2)]

\* main.py, main and run_all up to the first await: .env is loaded over the
\* environment, the credential is checked, the arguments set the
\* environment, Phase 1 is imported and called (or skipped)
cli_main ==
    /\ cli.pc = "idle" /\ DOMAIN jobs = {}
    /\ ~modules[1].imported /\ ~modules[2].imported
    /\ \E skip1 \in BOOLEAN, skip2 \in BOOLEAN, retries \in 1..MaxRetries :
         LET args == [cli EXCEPT !.input = "input.csv",
                                 !.core_output = "output.core.csv",
                                 !.final_output = "output.with_contacts.csv",
                                 !.row_retries = retries,
                                 !.skip_phase1 = skip1, !.skip_phase2 = skip2]
             e1 == load_dotenv(environ, dotenv, TRUE)
             e2 == set_env_for_phases(e1, args)
             imp == ImportPhase1(modules, e2, dotenv, clock)
             p2 == CliEnterPhase2(args, modules, e2, dotenv, clock, files, frames["cli"])
         IN  IF e1["GOOGLE_API_KEY"] = ""
             THEN /\ cli' = [args EXCEPT !.pc = "exit1"]
                  /\ environ' = e1
                  /\ UNCHANGED <<modules, frames>>
             ELSE IF ~skip1
             THEN /\ cli' = [args EXCEPT !.pc = "phase1"]
                  /\ environ' = imp.environ
                  /\ modules' = imp.modules
                  /\ frames' = [frames EXCEPT !["cli"] = CalledFrame(1)]
             ELSE /\ cli' = p2.cli
                  /\ environ' = p2.environ
                  /\ modules' = p2.modules
                  /\ frames' = [frames EXCEPT !["cli"] = p2.frame]
    /\ UNCHANGED <<dotenv, clock, lib, diskVars, jobs, tasks, stop_requested, current_job_id>>

\* main.py, run_all lines 69-94: phase1_main() has returned or raised; the
\* core output must exist; Phase 2 is imported and called (or skipped)
cli_phase1_returns ==
    LET f == frames["cli"]
        p2 == CliEnterPhase2(cli, modules, environ, dotenv, clock, files, f)
    IN  /\ cli.pc = "phase1" /\ Ended(f)
        /\ IF f.pc = "raised"
           THEN /\ cli' = [cli EXCEPT !.pc = "crashed"]
                /\ UNCHANGED <<environ, modules, frames>>
           ELSE IF cli.core_output \notin DOMAIN files
           THEN /\ cli' = [cli EXCEPT !.pc = "exit1"]
                /\ UNCHANGED <<environ, modules, frames>>
           ELSE /\ cli' = p2.cli
                /\ environ' = p2.environ
                /\ modules' = p2.modules
                /\ frames' = [frames EXCEPT !["cli"] = p2.frame]
        /\ UNCHANGED <<dotenv, clock, lib, diskVars, jobs, tasks, stop_requested, current_job_id>>

\* main.py, run_all lines 94-99: phase2_main() has returned or raised; the
\* final output must exist
cli_phase2_returns ==
    LET f == frames["cli"]
    IN  /\ cli.pc = "phase2" /\ Ended(f)
        /\ cli' = [cli EXCEPT !.pc =
                     IF f.pc = "raised" THEN "crashed"
                     ELSE IF cli.final_output \notin DOMAIN files THEN "exit1"
                     ELSE "finished"]
        /\ UNCHANGED <<procVars, diskVars, frames, jobs, tasks, stop_requested,
                       current_job_id>>

\* api_server.start_job: the job is created and run_job is queued as a
\* background task
start_job(j, file_path, skip1, skip2) ==
    /\ cli.pc = "idle"
    /\ j \notin DOMAIN jobs
    /\ file_path \in DOMAIN files
    /\ jobs' = (j :> [NoJob EXCEPT !.status = "pending",
                                   !.phase = IF skip1 THEN "phase2" ELSE "phase1",
                                   !.input_file = file_path]) @@ jobs
    /\ tasks' = (j :> [pc |-> "queued", skip_phase1 |-> skip1,
                       skip_phase2 |-> skip2]) @@ tasks
    /\ UNCHANGED <<procVars, diskVars, frames, cli, stop_requested, current_job_id>>

\* run_job, "Job completed"
Completed(job) == [job EXCEPT !.status = "completed", !.phase = "completed"]

\* except Exception as e: job.status = "failed"
Failed(job, error) == [job EXCEPT !.status = "failed", !.error = error]

\* api_server.run_phase2 up to "await phase2_main()": the job, the
\* environment, the modules, the frame and the position of the task
ApiEnterPhase2(job, j, mods, e, d, run_id, fsys, f) ==
    LET running == [job EXCEPT !.phase = "phase2", !.status = "running"]
        e2 == [e EXCEPT !["INPUT_CSV"] = job.output_file_phase1,
                        !["OUTPUT_CSV"] = JobPath(j, "phase2_output"),
                        !["PARTIAL_CSV_PHASE2"] = JobPath(j, "phase2_partial")]
        imp == ImportPhase2(mods, e2, d, run_id)
    IN  IF job.output_file_phase1 = "" \/ job.output_file_phase1 \notin DOMAIN fsys
        THEN [job |-> Failed(running, "Phase 1 output not found. Run Phase 1 first."),
              environ |-> e, modules |-> mods, frame |-> f, pc |-> "finished"]
        ELSE [job |-> running, environ |-> imp.environ, modules |-> imp.modules,
              frame |-> CalledFrame(2), pc |-> "phase2"]

\* api_server.run_job up to its first await: the stop flag is reset, then
\* run_phase1 (lines 110-127) or, with Phase 1 skipped, run_phase2 starts
run_job(j) ==
    LET job == jobs[j]
        e1 == [environ EXCEPT !["INPUT_CSV"] = job.input_file,
                              !["OUTPUT_CSV"] = JobPath(j, "phase1_output"),
                              !["PARTIAL_CSV"] = JobPath(j, "phase1_partial")]
        imp == ImportPhase1(modules, e1, dotenv, clock)
        p2 == ApiEnterPhase2(job, j, modules, environ, dotenv, clock, files, frames[j])
    IN  /\ j \in DOMAIN tasks /\ tasks[j].pc = "queued"
        /\ stop_requested' = FALSE
        /\ IF ~tasks[j].skip_phase1
           THEN /\ jobs' = [jobs EXCEPT ![j] = [job EXCEPT !.phase = "phase1",
                                                           !.status = "running"]]
                /\ environ' = imp.environ
                /\ modules' = imp.modules
                /\ frames' = [frames EXCEPT ![j] = CalledFrame(1)]
                /\ tasks' = [tasks EXCEPT ![j].pc = "phase1"]
                /\ current_job_id' = j
           ELSE IF ~tasks[j].skip_phase2
           THEN /\ jobs' = [jobs EXCEPT ![j] = p2.job]
                /\ environ' = p2.environ
                /\ modules' = p2.modules
                /\ frames' = [frames EXCEPT ![j] = p2.frame]
                /\ tasks' = [tasks EXCEPT ![j].pc = p2.pc]
                /\ current_job_id' = IF p2.pc = "finished" THEN "" ELSE j
           ELSE /\ jobs' = [jobs EXCEPT ![j] = Completed(job)]
                /\ tasks' = [tasks EXCEPT ![j].pc = "finished"]
                /\ current_job_id' = ""
                /\ UNCHANGED <<environ, modules, frames>>
        /\ UNCHANGED <<dotenv, clock, lib, diskVars, cli>>

\* api_server.run_phase1 lines 127-142 and run_job lines 197-219:
\* phase1_main() has returned or raised; a raise fails the job, a stop
\* request seen now stops it, otherwise Phase 2 starts (or is skipped)
run_phase1_returns(j) ==
    LET job == jobs[j]
        f == frames[j]
        ok == [job EXCEPT !.output_file_phase1 = JobPath(j, "phase1_output")]
        p2 == ApiEnterPhase2(ok, j, modules, environ, dotenv, clock, files, f)
    IN  /\ j \in DOMAIN tasks /\ tasks[j].pc = "phase1" /\ Ended(f)
        /\ IF f.pc = "raised"
           THEN /\ jobs' = [jobs EXCEPT ![j] = Failed(job, f.error)]
                /\ tasks' = [tasks EXCEPT ![j].pc = "finished"]
                /\ current_job_id' = ""
                /\ UNCHANGED <<environ, modules, frames>>
           ELSE IF stop_requested
           THEN /\ jobs' = [jobs EXCEPT ![j] = [job EXCEPT !.status = "stopped"]]
                /\ tasks' = [tasks EXCEPT ![j].pc = "finished"]
                /\ current_job_id' = ""
                /\ UNCHANGED <<environ, modules, frames>>
           ELSE IF tasks[j].skip_phase2
           THEN /\ jobs' = [jobs EXCEPT ![j] = Completed(ok)]
                /\ tasks' = [tasks EXCEPT ![j].pc = "finished"]
                /\ current_job_id' = ""
                /\ UNCHANGED <<environ, modules, frames>>
           ELSE /\ jobs' = [jobs EXCEPT ![j] = p2.job]
                /\ environ' = p2.environ
                /\ modules' = p2.modules
                /\ frames' = [frames EXCEPT ![j] = p2.frame]
                /\ tasks' = [tasks EXCEPT ![j].pc = p2.pc]
                /\ current_job_id' = IF p2.pc = "finished" THEN "" ELSE current_job_id
        /\ UNCHANGED <<dotenv, clock, lib, diskVars, cli, stop_requested>>

\* api_server.run_phase2 lines 165-184 and run_job lines 207-219:
\* phase2_main() has returned or raised
run_phase2_returns(j) ==
    LET job == jobs[j]
        f == frames[j]
    IN  /\ j \in DOMAIN tasks /\ tasks[j].pc = "phase2" /\ Ended(f)
        /\ jobs' = [jobs EXCEPT ![j] =
                      IF f.pc = "raised" THEN Failed(job, f.error)
                      ELSE IF stop_requested THEN [job EXCEPT !.status = "stopped"]
                      ELSE Completed([job EXCEPT !.output_file_phase2 =
                                                    JobPath(j, "phase2_output")])]
        /\ tasks' = [tasks EXCEPT ![j].pc = "finished"]
        /\ current_job_id' = ""
        /\ UNCHANGED <<procVars, diskVars, frames, cli, stop_requested>>

\* api_server.stop_job: accepted for a job whose status is "running"
stop_job(j) ==
    /\ j \in DOMAIN jobs
    /\ jobs[j].status = "running"
    /\ stop_requested' = TRUE
    /\ jobs' = [jobs EXCEPT ![j].status = "stopped"]
    /\ UNCHANGED <<procVars, diskVars, frames, cli, tasks, current_job_id>>

\* a command line started in a directory holding input.csv, or a server
\* process with one uploaded file; the upload is input.csv under its
\* uploaded name, and .env may name a Phase 2 input of its own
InitOrch ==
    /\ \E every \in 1..MaxEvery, retries \in 1..MaxRetries :
         environ = [NoEnv EXCEPT !["GOOGLE_API_KEY"] = "key",
                                 !["PARTIAL_EVERY"] = ToString(every),
                                 !["ROW_RETRIES"] = ToString(retries)]
    /\ dotenv \in {NoEnv, [NoEnv EXCEPT !["INPUT_CSV_PHASE2"] = "old.core.csv"]}
    /\ modules = [ph \in 1..2 |-> NotImported]
    /\ \E kind \in {"plain", "core"}, n \in 1..MaxRows :
         files = [q \in {"input.csv", "uploads/a.csv"} |-> InputFile(kind, n)]
    /\ logs = [q \in {} |-> <<>>]
    /\ frames = [t \in Tasks |-> IdleFrame]
    /\ clock = 0
    /\ lib = NoLib
    /\ IdleOrch

NextOrch ==
    \/ cli_main
    \/ cli_phase1_returns
    \/ cli_phase2_returns
    \/ \E skip1 \in BOOLEAN, skip2 \in BOOLEAN :
         start_job("j1", "uploads/a.csv", skip1, skip2)
    \/ run_job("j1")
    \/ run_phase1_returns("j1")
    \/ run_phase2_returns("j1")
    \/ stop_job("j1")
    \/ PhaseStep("cli")
    \/ PhaseStep("j1")

SpecOrch == InitOrch /\ [][NextOrch]_vars

\* the same command line and server over a one-line input and a fixed
\* environment
InitPipeline ==
    /\ environ = [NoEnv EXCEPT !["GOOGLE_API_KEY"] = "key",
                               !["PARTIAL_EVERY"] = "1",
                               !["ROW_RETRIES"] = "1"]
    /\ dotenv = NoEnv
    /\ modules = [ph \in 1..2 |-> NotImported]
    /\ \E kind \in {"plain", "core"}, n \in 0..1 :
         files = [q \in {"input.csv", "uploads/a.csv"} |-> InputFile(kind, n)]
    /\ logs = [q \in {} |-> <<>>]
    /\ frames = [t \in Tasks |-> IdleFrame]
    /\ clock = 0
    /\ lib = NoLib
    /\ IdleOrch

SpecPipeline == InitPipeline /\ [][NextOrch]_vars

(***************************************************************************)
(* One server process and two jobs, each on an upload of its own.  The     *)
(* jobs may follow each other or overlap.  Phase 2 of a job gets as far as *)
(* its start-up checks: the server sets INPUT_CSV, not INPUT_CSV_PHASE2.   *)
(***************************************************************************)
\* col.lower().strip() contains "address"
NamesAddress(col) == col \in {"ADDRESS", "Address", " address "}

\* col.lower().strip() contains "postcode" or "post_code"
NamesPostcode(col) == col \in {"POSTCODE", "Postcode", "post_code"}

\* upload_file, lines 248-262: the validation of the saved upload passes
upload_accepts(file) ==
    LET rows == read_rows(file)
    IN  /\ Len(rows) >= 2
        /\ \E c \in 1..Len(rows[1]) : NamesAddress(rows[1][c])
        /\ \E c \in 1..Len(rows[1]) : NamesPostcode(rows[1][c])

\* the upload of a job
UploadOf(j) == IF j = "j1" THEN "uploads/a.csv" ELSE "uploads/b.csv"

\* one step of phase1_discovery.main() in task t
Phase1Step(t) ==
    \/ P1_Start(t)
    \/ P1_NextRow(t)
    \/ P1_StartCall(t)
    \/ P1_CallReturns(t)
    \/ P1_Wake(t)
    \/ P1_Merge(t)
    \/ P1_Finish(t)

InitServer ==
    /\ environ = [NoEnv EXCEPT !["GOOGLE_API_KEY"] = "key",
                               !["PARTIAL_EVERY"] = "1",
                               !["ROW_RETRIES"] = "1"]
    /\ dotenv = NoEnv
    /\ modules = [ph \in 1..2 |-> NotImported]
    /\ files = [q \in {UploadOf(j) : j \in JobIds} |->
                  IF q = UploadOf("j1") THEN InputFile("plain", 1)
                  ELSE InputFile("core", 1)]
    /\ logs = [q \in {} |-> <<>>]
    /\ frames = [t \in Tasks |-> IdleFrame]
    /\ clock = 0
    /\ lib = NoLib
    /\ IdleOrch

NextServer ==
    \/ \E j \in JobIds, skip2 \in BOOLEAN : start_job(j, UploadOf(j), FALSE, skip2)
    \/ \E j \in JobIds : run_job(j)
    \/ \E j \in JobIds : run_phase1_returns(j)
    \/ \E j \in JobIds : run_phase2_returns(j)
    \/ \E j \in JobIds : stop_job(j)
    \/ \E j \in JobIds : Phase1Step(j)
    \/ \E j \in JobIds : P2_Start(j)

SpecServer == InitServer /\ [][NextServer]_vars

(***************************************************************************)
(* Phase 2 runs over the configured maximum of contacts per company, on an *)
(* earlier Phase 1 output and on a file that already has a column of the   *)
(* third contact slot, filled by hand.                                     *)
(***************************************************************************)
\* the values TARGET_CONTACTS is configured with ("" is: not set)
TargetSettings == {"", "-1", "0", "1", "2", "3", "5"}

\* an earlier output with the name and title columns of contact slot 3
HandedFile(n) ==
    LET base == InputFile("core", n)
    IN  [base EXCEPT
           !.lines = [k \in 1..Len(@) |->
                        IF k = 1
                        THEN @[k] \o <<ContactCol(OUT_COL_CONTACT_NAME, 3),
                                       ContactCol(OUT_COL_CONTACT_TITLE, 3)>>
                        ELSE IF k = Len(@) THEN @[k]
                        ELSE @[k] \o <<"Old Hand", "Clerk">>]]

\* one step of phase2_contacts.main() in task t
Phase2Step(t) ==
    \/ P2_Start(t)
    \/ P2_NextRow(t)
    \/ P2_StartCall(t)
    \/ P2_CallReturns(t)
    \/ P2_Wake(t)
    \/ P2_Merge(t)
    \/ P2_Finish(t)

InitContacts ==
    /\ \E target \in TargetSettings, every \in 0..1 :
         environ = [NoEnv EXCEPT !["GOOGLE_API_KEY"] = "key",
                                 !["INPUT_CSV_PHASE2"] = "input.csv",
                                 !["PARTIAL_EVERY"] = ToString(every),
                                 !["ROW_RETRIES"] = "1",
                                 !["TARGET_CONTACTS"] = target]
    /\ dotenv = NoEnv
    /\ modules = [ph \in 1..2 |-> NotImported]
    /\ \E n \in 1..MaxRows, handed \in BOOLEAN :
         files = [q \in {"input.csv"} |->
                    IF handed THEN HandedFile(n) ELSE InputFile("core", n)]
    /\ logs = [q \in {} |-> <<>>]
    /\ frames = [t \in Tasks |-> IdleFrame]
    /\ clock = 0
    /\ lib = NoLib
    /\ IdleOrch

NextContacts ==
    \/ LaunchPhase2
    \/ Phase2Step("cli")

SpecContacts == InitContacts /\ [][NextContacts]_vars

(***************************************************************************)
(* Properties.                                                             *)
(***************************************************************************)
\* the frames in which a phase's main() is past its start-up
PhaseFrames == {t \in Tasks : frames[t].phase \in {1, 2} /\ frames[t].pc # "start"}

\* the module configuration a frame runs under
Cfg(f) == modules[f.phase]

\* the phase's success condition on the result the frame holds
Succeeded(f) ==
    IF f.phase = 1 THEN attempt_has_core(f.info) ELSE f.contacts # <<>>

\* the number of times a path has been written (0 for a missing file)
Writes(path) == IF path \in DOMAIN files THEN files[path].writes ELSE 0

\* the data lines of a file
DataLines(path) == Tail(files[path].lines)

\* the header the phase read from its input
InputHeader(f) == read_rows(files[Cfg(f).INPUT_CSV])[1]

EnrichmentCols ==
    {OUT_COL_COMPANY_NAME, OUT_COL_WEBSITE, OUT_COL_EMAIL, OUT_COL_GOVUK_URL,
     OUT_COL_SOURCE_URL, OUT_COL_CONFIDENCE}
    \cup {PhoneCol(k) : k \in 1..4}
    \cup {ContactCol(b, k) : b \in {OUT_COL_CONTACT_NAME, OUT_COL_CONTACT_TITLE,
                                    OUT_COL_CONTACT_LINKEDIN, OUT_COL_CONTACT_EMAIL},
                             k \in 1..3}

\* C2: every enrichment cell (phone slots 2 and above included) that is
\* non-empty in a row as read holds the same value in the row after the
\* merge and the phone fill.
C2_NeverOverwrites ==
    \A t \in PhaseFrames :
        LET f == frames[t]
        IN  f.pc = "done" =>
              \A k \in 1..Len(f.data_rows) :
                \A c \in 1..Min2(Len(f.data_rows[k]), Len(InputHeader(f))) :
                    (InputHeader(f)[c] \in EnrichmentCols /\ f.data_rows[k][c] # "")
                        => f.processed_rows[k][c] = f.data_rows[k][c]

\* the cell is a notes cell that ends with the marker: what the row had
\* before, what the result added, and the marker
HasMarker(cell, marker) ==
    \E e \in {"", "kept", " seen by hand", "extra"}, n \in {"", "ok", "partial", "current"} :
        cell = JoinStripSemi(<<e, n, marker>>)

\* C3: a Phase 1 row for which every one of the R attempts raised is kept,
\* and its NOTES cell contains "Phase1 attempts: R/R".
C3_RaisedRowHasMarker ==
    \A t \in PhaseFrames :
        LET f == frames[t]
            R == Cfg(f).ROW_RETRIES
        IN  (f.phase = 1 /\ f.pc = "loop" /\ f.i >= 1 /\ R >= 1
               /\ f.calls[f.i] = R /\ f.raises = R)
            => /\ Len(f.processed_rows) = f.i
               /\ HasMarker(f.processed_rows[f.i][IndexOf(f.output_header, OUT_COL_NOTES)],
                            attempts_note(1, R, R))

\* C4: no phase leaves its row loop by an exception, and a finished phase
\* has entered the loop body for every data row and has written an output
\* with one data line per input data row, in input order (the first cell of
\* every input row is its ID).
C4_NoRowBlocks ==
    \A t \in PhaseFrames :
        LET f == frames[t]
            out == Cfg(f).OUTPUT_CSV
        IN  /\ f.pc = "raised" => f.i = 0
            /\ f.pc = "done" =>
                 /\ out \in DOMAIN files
                 /\ Len(f.calls) = Len(f.data_rows)
                 /\ Len(DataLines(out)) = Len(f.data_rows)
                 /\ \A k \in 1..Len(f.data_rows) :
                        DataLines(out)[k][1] = f.data_rows[k][1]

\* C4 witness: Phase 1 is done with two rows; the first row failed both of
\* its attempts (nothing was merged into it) and the second row was looked up
C4_Witness ==
    \E t \in PhaseFrames :
        LET f == frames[t]
        IN  /\ f.phase = 1 /\ f.pc = "done"
            /\ Cfg(f).ROW_RETRIES = 2
            /\ Len(f.calls) = 2
            /\ f.calls[1] = 2 /\ f.calls[2] >= 1
            /\ f.processed_rows[1][IndexOf(f.output_header, OUT_COL_NOTES)] = ""
            /\ Len(DataLines(Cfg(f).OUTPUT_CSV)) = 2

\* the states in which main() is inside its row loop
InLoop(f) == f.pc \in {"loop", "call", "await", "sleep", "merge"}

\* C5: while a phase is in its row loop, a partial snapshot on disk holds
\* k data lines for a k divisible by PARTIAL_EVERY, and each of them has as
\* many cells as the snapshot's header.
C5_SnapshotRectangular ==
    \A t \in PhaseFrames :
        LET f == frames[t]
            part == Cfg(f).PARTIAL_CSV
        IN  (InLoop(f) /\ part \in DOMAIN files) =>
              /\ Len(DataLines(part)) % Cfg(f).PARTIAL_EVERY = 0
              /\ \A k \in 1..Len(DataLines(part)) :
                    Len(DataLines(part)[k]) = Len(files[part].lines[1])

\* C6: in the final output of a finished phase every data line has as many
\* cells as the header.
C6_OutputRectangular ==
    \A t \in PhaseFrames :
        LET f == frames[t]
            out == Cfg(f).OUTPUT_CSV
        IN  f.pc = "done" =>
              \A k \in 1..Len(DataLines(out)) :
                  Len(DataLines(out)[k]) = Len(files[out].lines[1])

\* C7: when a phase has finished, the partial-snapshot file exists and holds
\* the header and the rows of the final output.
C7_FinalSnapshotMirrors ==
    \A t \in PhaseFrames :
        LET f == frames[t]
        IN  f.pc = "done" =>
              /\ Cfg(f).PARTIAL_CSV \in DOMAIN files
              /\ files[Cfg(f).PARTIAL_CSV].lines = files[Cfg(f).OUTPUT_CSV].lines

\* floor(n / every) for every > 0, and 0 autosaves when autosave is off
Autosaves(n, every) == IF every > 0 THEN n \div every ELSE 0

\* C8 as stated: a finished phase over N rows with interval E > 0 has
\* overwritten the partial file exactly floor(N/E) times.
C8_ExactlyFloorWrites ==
    \A t \in PhaseFrames :
        LET f == frames[t]
        IN  (f.pc = "done" /\ Cfg(f).PARTIAL_EVERY > 0) =>
              Writes(Cfg(f).PARTIAL_CSV)
                  = Len(f.data_rows) \div Cfg(f).PARTIAL_EVERY

\* C8 amended: inside the row loop the partial file has been written once
\* per full interval of processed rows, and the j-th such write holds
\* exactly the first j*E processed rows; a finished Phase 1 has written it
\* floor(N/E) times and a finished Phase 2 once more than that.
C8_PeriodicWrites ==
    \A t \in PhaseFrames :
        LET f == frames[t]
            E == Cfg(f).PARTIAL_EVERY
            part == Cfg(f).PARTIAL_CSV
            n == Len(f.processed_rows)
        IN  /\ InLoop(f) =>
                 /\ Writes(part) = Autosaves(n, E)
                 /\ Writes(part) > 0 =>
                      /\ Len(DataLines(part)) = Writes(part) * E
                      /\ \A k \in 1..Len(DataLines(part)) :
                            DataLines(part)[k][1] = f.processed_rows[k][1]
            /\ f.pc = "done" =>
                 Writes(part) = Autosaves(n, E) + (IF f.phase = 2 THEN 1 ELSE 0)

\* C8 witness: Phase 2 has finished two rows with PARTIAL_EVERY = 1 and
\* the partial file has been written three times
C8_Witness ==
    \E t \in PhaseFrames :
        LET f == frames[t]
        IN  /\ f.phase = 2 /\ f.pc = "done"
            /\ Len(f.data_rows) = 2 /\ Cfg(f).PARTIAL_EVERY = 1
            /\ Writes(Cfg(f).PARTIAL_CSV) = 3

\* the file Phase 1 of the run wrote: the core output of the command line,
\* the job-specific Phase 1 output of a job
Phase1Wrote(t) == IF t = "cli" THEN cli.core_output ELSE jobs[t].output_file_phase1

\* C9: once a stop request for a running job has been accepted and the
\* job's phase stands at the row boundary after a row i, the phase does not
\* go on to an enrichment call for the next row.
C9_StopAtRowBoundary ==
    [][\A j \in DOMAIN jobs :
          (stop_requested /\ jobs[j].status = "stopped"
             /\ frames[j].pc = "loop" /\ frames[j].i >= 1)
              => frames'[j].pc # "call"]_vars

\* C10: in a run of the command line or of a job, a Phase 2 that is past
\* its start-up reads the file Phase 1 of that run wrote, and it has made
\* enrichment calls only if that file exists.
C10_Phase2ReadsPhase1Output ==
    \A t \in PhaseFrames :
        LET f == frames[t]
        IN  f.phase = 2 =>
              /\ modules[2].INPUT_CSV = Phase1Wrote(t)
              /\ (\E k \in 1..Len(f.calls) : f.calls[k] > 0)
                    => Phase1Wrote(t) \in DOMAIN files

\* C11: within a row's retry loop no sleep is longer than RETRY_MAX_SLEEP
\* and each sleep is at least as long as the one before it, whatever start
\* sleep, multiplier and maximum sleep are configured.
C11_SleepsNonDecreasing ==
    \A t \in PhaseFrames :
        LET f == frames[t]
        IN  \A k \in 1..Len(f.slept) :
              /\ f.slept[k] <= Cfg(f).RETRY_MAX_SLEEP
              /\ k < Len(f.slept) => f.slept[k] <= f.slept[k + 1]

\* the success condition as the specification words it
CoreFound(info) ==
    /\ info.present
    /\ \/ info.website # "" /\ info.email # ""
       \/ Len(info.numbers) >= 1
       \/ info.company_name # "" /\ info.govuk_url # ""

\* C12: the Phase 1 success predicate agrees with the specification's
\* condition on every result the phase holds; a failed attempt is followed
\* by a sleep, and the retry loop is left without a sleep after its last
\* attempt exactly when that attempt's result satisfies the condition.
C12_SuccessPredicate ==
    \A t \in PhaseFrames :
        LET f == frames[t]
        IN  f.phase = 1 =>
              /\ attempt_has_core(f.info) = CoreFound(f.info)
              /\ f.pc = "sleep" => ~CoreFound(f.info)
              /\ (f.pc \in {"call", "await"} /\ f.attempt >= 1) => ~CoreFound(f.info)
              /\ (f.pc = "merge" /\ f.attempt >= 1) =>
                    /\ CoreFound(f.info) <=> Len(f.slept) = f.attempt - 1
                    /\ ~CoreFound(f.info) =>
                          /\ Len(f.slept) = f.attempt
                          /\ f.attempt = Cfg(f).ROW_RETRIES

\* C12 witness: the first attempt failed and was followed by a sleep; the
\* second returned a name and a registry URL only and ended the retry loop
C12_Witness ==
    \E t \in PhaseFrames :
        LET f == frames[t]
        IN  /\ f.phase = 1 /\ f.pc = "merge"
            /\ f.attempt = 2 /\ Len(f.slept) = 1
            /\ f.info.company_name # "" /\ f.info.govuk_url # ""
            /\ f.info.website = "" /\ f.info.numbers = <<>>

\* the records of the checkpoint log of the frame's phase
CheckpointLog(f) ==
    IF Cfg(f).CHECKPOINT_JSONL \in DOMAIN logs
    THEN logs[Cfg(f).CHECKPOINT_JSONL] ELSE <<>>

\* the positions of the log's records for row k
RecordsOf(f, k) ==
    {j \in 1..Len(CheckpointLog(f)) : CheckpointLog(f)[j].row_index = k}

\* the record's output (Phase 1) or result (Phase 2) is null
NullOutput(rec) ==
    IF "output" \in DOMAIN rec THEN rec.output = "null"
    ELSE "result" \in DOMAIN rec /\ rec.result = "null"

\* the cell of input line k under the named column, without the blanks
\* around it; empty when the line has no such cell
RequestCell(f, k, name) ==
    LET idx == IndexOf(f.output_header, name)
    IN  IF Len(f.data_rows[k]) >= idx THEN Strip(f.data_rows[k][idx]) ELSE ""

\* the fields a request for row k is made of are all empty
RequestEmpty(f, k) ==
    IF f.phase = 1
    THEN RequestCell(f, k, OUT_COL_ADDRESS) = "" /\ RequestCell(f, k, OUT_COL_POSTCODE) = ""
    ELSE RequestCell(f, k, OUT_COL_COMPANY_NAME) = ""

\* C13: a row whose request fields are all empty causes no enrichment call,
\* is appended as it was read apart from right-padding to the header width,
\* and has exactly one checkpoint record, whose output is null.
C13_EmptyRequestSkipped ==
    \A t \in PhaseFrames :
        LET f == frames[t]
        IN  InLoop(f) =>
              \A k \in 1..Len(f.processed_rows) :
                  RequestEmpty(f, k) =>
                    /\ f.calls[k] = 0
                    /\ f.processed_rows[k] = PadTo(f.data_rows[k], Len(f.output_header))
                    /\ Cardinality(RecordsOf(f, k)) = 1
                    /\ \A j \in RecordsOf(f, k) : NullOutput(CheckpointLog(f)[j])

\* C13 witness: a row with a whitespace-only address and no postcode has
\* been passed over, and the row after it is being asked for
C13_Witness ==
    \E t \in PhaseFrames :
        LET f == frames[t]
        IN  /\ f.phase = 1 /\ f.pc = "await" /\ f.i = 2
            /\ Len(f.processed_rows) = 1
            /\ RequestEmpty(f, 1)
            /\ f.data_rows[1][2] = "   "
            /\ f.calls = <<0, 1>>

\* the run's start-up finds no credential, no input file, or no header in
\* the input
StartupFault(f) ==
    \/ environ["GOOGLE_API_KEY"] = ""
    \/ Cfg(f).INPUT_CSV \notin DOMAIN files
    \/ ~files[Cfg(f).INPUT_CSV].has_header

\* the run has asked for nothing and has left no record and no file
NothingDone(f) ==
    /\ f.i = 0 /\ f.calls = <<>> /\ f.processed_rows = <<>>
    /\ CheckpointLog(f) = <<>>
    /\ Cfg(f).OUTPUT_CSV \notin DOMAIN files
    /\ Cfg(f).PARTIAL_CSV \notin DOMAIN files

C15_WriteFailuresSwallowed ==
    \A t \in PhaseFrames :
        LET f == frames[t]
            out == Cfg(f).OUTPUT_CSV
        IN  /\ f.pc = "raised" => f.i = 0
            /\ f.pc \in {"raised", "returned"} \/ InLoop(f) \/ f.pc = "done"
            /\ (InLoop(f) \/ f.pc = "done") =>
                  /\ Len(f.processed_rows) \in {f.i - 1, f.i}
                  /\ \A k \in 1..Len(f.processed_rows) :
                        /\ RequestEmpty(f, k) <=> f.calls[k] = 0
                        /\ f.calls[k] <= Cfg(f).ROW_RETRIES
                        /\ f.processed_rows[k][1] = f.data_rows[k][1]
            /\ f.pc = "done" =>
                  /\ Len(f.processed_rows) = Len(f.data_rows)
                  /\ out \in DOMAIN files
                  /\ files[out].lines = <<f.output_header>> \o f.processed_rows
                  /\ files[out].writes = 1

\* C15 witness: a run of two rows with a snapshot due after each has
\* ended; a checkpoint record was lost and the snapshot file was left empty
C15_Witness ==
    \E t \in PhaseFrames :
        LET f == frames[t]
        IN  /\ f.phase = 1 /\ f.pc = "done" /\ Len(f.data_rows) = 2
            /\ Cfg(f).PARTIAL_EVERY = 1
            /\ Len(CheckpointLog(f)) = 1
            /\ Cfg(f).PARTIAL_CSV \in DOMAIN files
            /\ files[Cfg(f).PARTIAL_CSV].lines = <<>>
            /\ f.calls[2] >= 1

\* every log on disk is still there after the step and begins with the
\* records it held before
LogsOnlyGrow ==
    \A path \in DOMAIN logs :
        /\ path \in DOMAIN logs'
        /\ Len(logs'[path]) >= Len(logs[path])
        /\ SubSeq(logs'[path], 1, Len(logs[path])) = logs[path]

\* the log of the frame's phase holds one record per processed row, with
\* the row indices 1, 2, ... in order
OneRecordPerRow(f) ==
    /\ Len(CheckpointLog(f)) = Len(f.processed_rows)
    /\ \A j \in 1..Len(CheckpointLog(f)) : CheckpointLog(f)[j].row_index = j

RowsInPartial(f) ==
    IF Cfg(f).PARTIAL_CSV \in DOMAIN files
    THEN Len(DataLines(Cfg(f).PARTIAL_CSV)) ELSE 0

\* C17: with a snapshot interval N > 0 and snapshot writes that succeed, the
\* rows of the partial file are the first processed rows, and the processed
\* rows that are not in it number (processed rows) mod N, which is at most N,
\* at every point of the loop.
C17_AtMostIntervalRowsBehind ==
    \A t \in PhaseFrames :
        LET f == frames[t]
            N == Cfg(f).PARTIAL_EVERY
            done == Len(f.processed_rows)
        IN  (InLoop(f) /\ N > 0) =>
              /\ RowsInPartial(f) <= done
              /\ done - RowsInPartial(f) = done % N
              /\ done - RowsInPartial(f) <= N
              /\ \A k \in 1..RowsInPartial(f) :
                    DataLines(Cfg(f).PARTIAL_CSV)[k][1] = f.processed_rows[k][1]

\* C17 witness: with an interval of one, the second row is in flight and the
\* first is in the partial file
C17_Witness ==
    \E t \in PhaseFrames :
        LET f == frames[t]
        IN  /\ f.pc = "await" /\ f.i = 2
            /\ Cfg(f).PARTIAL_EVERY = 1
            /\ Len(f.processed_rows) = 1
            /\ RowsInPartial(f) = 1

\* C18: a phase run that has completed without an error has written its
\* final output exactly once, with the header and all processed rows,
\* whatever the input held.
C18_CompletedRunWroteOutput ==
    \A t \in PhaseFrames :
        LET f == frames[t]
            out == Cfg(f).OUTPUT_CSV
        IN  f.pc \in {"done", "returned"} =>
              /\ out \in DOMAIN files
              /\ files[out].writes = 1
              /\ files[out].lines = <<f.output_header>> \o f.processed_rows

\* the cell of a line under column c, empty when the line is shorter
CellOrBlank(line, c) == IF Len(line) >= c THEN line[c] ELSE ""

\* C19: every cell of an input column other than the address and postcode
\* columns has the same value in the final output as in the input,
\* whatever the column is called.
C19_InputColumnsPassThrough ==
    \A t \in PhaseFrames :
        LET f == frames[t]
            out == Cfg(f).OUTPUT_CSV
        IN  (f.pc = "done" /\ out \in DOMAIN files) =>
              \A k \in 1..Len(f.data_rows) :
                \A c \in 1..Len(InputHeader(f)) :
                    InputHeader(f)[c] \notin {OUT_COL_ADDRESS, OUT_COL_POSTCODE}
                        => CellOrBlank(DataLines(out)[k], c) = CellOrBlank(f.data_rows[k], c)

\* the four columns of contact slot k
ContactFamily(k) ==
    <<ContactCol(OUT_COL_CONTACT_NAME, k), ContactCol(OUT_COL_CONTACT_TITLE, k),
      ContactCol(OUT_COL_CONTACT_LINKEDIN, k), ContactCol(OUT_COL_CONTACT_EMAIL, k)>>

\* the order the specification gives for the appended columns
NominalOrder ==
    <<OUT_COL_COMPANY_NAME, OUT_COL_WEBSITE, OUT_COL_EMAIL>>
    \o [k \in 1..4 |-> PhoneCol(k)]
    \o ContactFamily(1) \o ContactFamily(2) \o ContactFamily(3)
    \o <<OUT_COL_GOVUK_URL, OUT_COL_SOURCE_URL, OUT_COL_CONFIDENCE, OUT_COL_NOTES>>

\* the header followed by the names of the list it lacks, in list order
WithMissing(header, names) ==
    header \o SelectSeq(names, LAMBDA x : ~Contains(header, x))

\* the order in which a phase appends the columns the input lacks
AppendOrder(f) ==
    IF f.phase = 1
    THEN <<OUT_COL_ADDRESS, OUT_COL_POSTCODE, OUT_COL_COMPANY_NAME, OUT_COL_WEBSITE,
           OUT_COL_EMAIL, OUT_COL_PHONE, OUT_COL_GOVUK_URL, OUT_COL_SOURCE_URL,
           OUT_COL_CONFIDENCE, OUT_COL_NOTES>>
         \o [k \in 1..(Max2(1, MaxLen(f.phone_lists)) - 1) |-> PhoneCol(k + 1)]
    ELSE <<OUT_COL_COMPANY_NAME, OUT_COL_GOVUK_URL, OUT_COL_SOURCE_URL,
           OUT_COL_CONFIDENCE, OUT_COL_NOTES>>
         \o (IF Cfg(f).TARGET_CONTACTS >= 1 THEN ContactFamily(1) ELSE <<>>)
         \o (IF Cfg(f).TARGET_CONTACTS >= 2 THEN ContactFamily(2) ELSE <<>>)
         \o (IF Cfg(f).TARGET_CONTACTS >= 3 THEN ContactFamily(3) ELSE <<>>)
         \o <<OUT_COL_PHONE>>

\* C20 as stated: the output header is the input header followed by appended
\* columns that stand in the nominal order (company name, website, general
\* email, phone slots, contact families 1..3, registry URL, source URL,
\* confidence, notes), so that appended phone slots are next to each other.
C20_HeaderInNominalOrder ==
    \A t \in PhaseFrames :
        LET f == frames[t]
            out == Cfg(f).OUTPUT_CSV
            h == files[out].lines[1]
            n == Len(InputHeader(f))
        IN  (f.pc = "done" /\ out \in DOMAIN files) =>
              /\ Len(h) >= n
              /\ SubSeq(h, 1, n) = InputHeader(f)
              /\ \A a \in (n + 1)..Len(h) : Contains(NominalOrder, h[a])
              /\ \A a, b \in (n + 1)..Len(h) :
                    a < b => IndexOf(NominalOrder, h[a]) < IndexOf(NominalOrder, h[b])

\* C20 amended: the output header is the input header followed by the
\* columns the input lacks, in the order the phase ensures them: Phase 1
\* address, postcode, company name, website, general email, phone number,
\* registry URL, source URL, confidence, notes, and after notes the phone
\* slots 2.. up to the most numbers found for a row; Phase 2 company name,
\* registry URL, source URL, confidence, notes, the contact families
\* 1..TARGET_CONTACTS, and last the phone number column.
C20_HeaderInAppendOrder ==
    \A t \in PhaseFrames :
        LET f == frames[t]
            out == Cfg(f).OUTPUT_CSV
        IN  (f.pc = "done" /\ out \in DOMAIN files) =>
              /\ files[out].lines[1] = WithMissing(InputHeader(f), AppendOrder(f))
              /\ f.output_header = files[out].lines[1]

\* C20 witness: Phase 1 has ended on an input of three columns after three
\* numbers were found for a row; phone slots 2 and 3 stand after notes
C20_Witness ==
    \E t \in PhaseFrames :
        LET f == frames[t]
            out == Cfg(f).OUTPUT_CSV
        IN  /\ f.phase = 1 /\ f.pc = "done" /\ out \in DOMAIN files
            /\ InputHeader(f) = PlainHeader
            /\ Len(files[out].lines[1]) = 13
            /\ files[out].lines[1][7] = OUT_COL_PHONE
            /\ files[out].lines[1][11] = OUT_COL_NOTES
            /\ files[out].lines[1][12] = PhoneCol(2)
            /\ files[out].lines[1][13] = PhoneCol(3)

\* the first list is the beginning of the second
IsPrefix(a, b) == Len(a) <= Len(b) /\ SubSeq(b, 1, Len(a)) = a

\* the number of phone slots 1..9 that have a column in the header
PhoneWidth(header) == Cardinality({k \in 1..9 : Contains(header, PhoneCol(k))})

\* C21: whatever sequence of ensure_col_exact, ensure_phone_cols and
\* fill_phone_cols calls is made, each call leaves the header it was given
\* as the beginning of the header it leaves (so every column keeps its name
\* and index), the header the calls began with stays a prefix, and the
\* phone family never gets narrower.
C21_HeaderOnlyGrows ==
    /\ IsPrefix(lib.before, lib.header)
    /\ IsPrefix(lib.input, lib.header)
    /\ PhoneWidth(lib.before) <= PhoneWidth(lib.header)
    /\ PhoneWidth(lib.input) <= PhoneWidth(lib.header)

\* C21 witness: a fill with three numbers has just added two slots to a
\* header that began as ID, ADDRESS, POSTCODE and had grown before
C21_Witness ==
    /\ lib.op = "fill_phone_cols" /\ lib.error = ""
    /\ lib.input = PlainHeader
    /\ Len(lib.before) > Len(lib.input)
    /\ Len(lib.header) = Len(lib.before) + 2
    /\ Len(lib.numbers) = 3

\* C22: ensure_col_exact is idempotent: right after a call, a second call
\* with the same name returns the index the first returned and leaves the
\* header as the first left it; a call with a name the header already had
\* leaves the header as it was given, and a call adds at most one column.
C22_EnsureColumnIdempotent ==
    lib.op = "ensure_col_exact" =>
        /\ ensure_col_index(lib.header, lib.name) = lib.returned
        /\ ensure_col_exact(lib.header, lib.name) = lib.header
        /\ lib.header[lib.returned] = lib.name
        /\ Contains(lib.before, lib.name) => lib.header = lib.before
        /\ ~Contains(lib.before, lib.name) =>
              /\ lib.header = Append(lib.before, lib.name)
              /\ lib.returned = Len(lib.header)

\* C22 witness: the call has appended the notes column to a header that
\* holds one name twice, and returned its index
C22_Witness ==
    /\ lib.op = "ensure_col_exact" /\ lib.name = OUT_COL_NOTES
    /\ lib.input = <<"ID", PhoneCol(2), "ID">>
    /\ ~Contains(lib.before, OUT_COL_NOTES)
    /\ lib.returned = Len(lib.before) + 1

\* C23: rows are processed strictly in input order, one call at a time: when
\* a call for row i is about to start or in flight, rows 1..i-1 and no
\* others have been merged, checkpointed and appended to the processed rows,
\* in input order, and no call has been made for a row after i.
C23_OneRowAtATime ==
    \A t \in PhaseFrames :
        LET f == frames[t]
        IN  /\ InLoop(f) =>
                  /\ Len(f.calls) = f.i
                  /\ Len(f.processed_rows) \in {f.i - 1, f.i}
                  /\ Len(CheckpointLog(f)) = Len(f.processed_rows)
                  /\ \A k \in 1..Len(f.processed_rows) :
                        /\ f.processed_rows[k][1] = f.data_rows[k][1]
                        /\ CheckpointLog(f)[k].row_index = k
            /\ f.pc \in {"call", "await", "sleep", "merge"} =>
                  /\ f.i >= 1
                  /\ Len(f.processed_rows) = f.i - 1
            /\ f.pc = "loop" => Len(f.processed_rows) = f.i

\* C23 witness: the call for the second row is in flight after the first
\* row took a call of its own and was merged, checkpointed and appended
C23_Witness ==
    \E t \in PhaseFrames :
        LET f == frames[t]
        IN  /\ f.pc = "await" /\ f.i = 2
            /\ Len(f.calls) = 2 /\ f.calls[1] >= 1
            /\ Len(f.processed_rows) = 1
            /\ Len(CheckpointLog(f)) = 1

\* C24: any two distinct phase runs append to different checkpoint logs and
\* write different partial-snapshot files, two jobs of one server process
\* included.
C24_RunsHaveOwnFiles ==
    \A t1, t2 \in PhaseFrames :
        t1 # t2 =>
          /\ Cfg(frames[t1]).CHECKPOINT_JSONL # Cfg(frames[t2]).CHECKPOINT_JSONL
          /\ Cfg(frames[t1]).PARTIAL_CSV # Cfg(frames[t2]).PARTIAL_CSV

\* C25: every output and snapshot file a phase has written has the
\* separator, the quote character and the line terminator that were
\* detected for the phase's input.
C25_WrittenInDetectedDialect ==
    \A t \in PhaseFrames :
        \A path \in {Cfg(frames[t]).OUTPUT_CSV, Cfg(frames[t]).PARTIAL_CSV} :
            Writes(path) > 0 =>
                files[path].dialect =
                    sniff_dialect_and_header(files[Cfg(frames[t]).INPUT_CSV]).dialect

\* C26: a row whose R attempts all failed has incurred exactly R-1 backoff
\* sleeps when it is merged: no sleep follows the last attempt.
C26_NoSleepAfterLastAttempt ==
    \A t \in PhaseFrames :
        LET f == frames[t]
        IN  (f.pc = "merge" /\ f.attempt >= 1 /\ ~Succeeded(f)) =>
                Len(f.slept) = Cfg(f).ROW_RETRIES - 1

\* the result a frame holds for its current row is nothing
HoldsNothing(f) == IF f.phase = 1 THEN ~f.info.present ELSE f.contacts = <<>>

\* C27: when all R attempts for a row fail, what is merged into the row is
\* the result of the R-th attempt: an attempt that raises leaves nothing of
\* the attempts before it, the backoff sleep changes nothing of the result,
\* and the row appended is the row merged with the result held then (the
\* row as it was when that result is nothing).
C27_LastAttemptMerged ==
    [][\A t \in Tasks :
         LET f == frames[t]
             g == frames'[t]
         IN  /\ (f.pc = "await" /\ g.pc # "await" /\ g.raises > f.raises) =>
                    HoldsNothing(g)
             /\ (f.pc = "sleep" /\ g.pc # "sleep") =>
                    (g.info = f.info /\ g.contacts = f.contacts)
             /\ (f.pc = "merge" /\ g.pc # "merge" /\ ~Succeeded(f)) =>
                    /\ f.attempt = Cfg(f).ROW_RETRIES
                    /\ Len(g.processed_rows) = f.i
                    /\ g.processed_rows[f.i] =
                          IF f.phase = 1
                          THEN MergePhase1(f.row, f.output_header, f.info, f.address,
                                           f.postcode, f.attempt, Cfg(f).ROW_RETRIES).row
                          ELSE MergePhase2(f.row, f.output_header, f.contacts,
                                           Cfg(f).TARGET_CONTACTS, f.attempt,
                                           Cfg(f).ROW_RETRIES)
                    /\ HoldsNothing(f) => g.processed_rows[f.i] = f.row]_vars

\* C27 witness: a Phase 1 row whose two attempts both failed, one of them
\* by raising, stands at its merge with nothing to merge
C27_Witness ==
    \E t \in PhaseFrames :
        LET f == frames[t]
        IN  /\ f.phase = 1 /\ f.pc = "merge"
            /\ f.attempt = 2 /\ Cfg(f).ROW_RETRIES = 2
            /\ f.raises >= 1 /\ Len(f.slept) = 2
            /\ ~f.info.present

\* C28: every processed row that was not skipped (at least one call was
\* made for it) has in its NOTES cell the notes it had, then the result's
\* note, then exactly one marker "Phase{N} attempts: k/max" for the k
\* attempts made, joined by "; " with the empty segments dropped.
C28_OneAttemptsMarker ==
    \A t \in PhaseFrames :
        LET f == frames[t]
        IN  \A k \in 1..Len(f.processed_rows) :
                (k <= Len(f.calls) /\ f.calls[k] >= 1) =>
                    HasMarker(CellOrBlank(f.processed_rows[k],
                                          IndexOf(f.output_header, OUT_COL_NOTES)),
                              attempts_note(f.phase, f.calls[k], Cfg(f).ROW_RETRIES))

\* the row a frame standing at its merge gets from merging its result into
\* the given row
MergedRow(f, row) ==
    IF f.phase = 1
    THEN MergePhase1(row, f.output_header, f.info, f.address, f.postcode,
                     f.attempt, Cfg(f).ROW_RETRIES).row
    ELSE MergePhase2(row, f.output_header, f.contacts, Cfg(f).TARGET_CONTACTS,
                     f.attempt, Cfg(f).ROW_RETRIES)

\* C29: the merge is idempotent: merging the result a second time into the
\* merged row leaves every cell as the first merge left it.
C29_MergeIdempotent ==
    \A t \in PhaseFrames :
        LET f == frames[t]
        IN  (f.pc = "merge" /\ f.attempt >= 1) =>
                MergedRow(f, MergedRow(f, f.row)) = MergedRow(f, f.row)

\* max(1, min(3, n))
Clamped(n) == IF n < 1 THEN 1 ELSE IF n > 3 THEN 3 ELSE n

\* the columns of the header that belong to a contact slot after slot k
SlotsBeyond(header, k) ==
    {c \in 1..Len(header) :
        \E j \in (k + 1)..5, b \in 1..4 : header[c] = ContactFamily(j)[b]}

\* C30: the maximum number of contacts per company Phase 2 runs with is the
\* configured one clamped to 1..3; no more contacts than that are held for a
\* row; the header gets no contact column of a later slot than the input
\* had, and in every processed row and every written line the cells of
\* later slots are as they were in the input.
C30_ContactsClamped ==
    \A t \in PhaseFrames :
        LET f == frames[t]
            T == Cfg(f).TARGET_CONTACTS
            beyond == SlotsBeyond(f.output_header, T)
        IN  (f.phase = 2 /\ f.pc # "raised") =>
              /\ T = Clamped(ParseInt(Getenv(environ, "TARGET_CONTACTS", "3")))
              /\ T \in 1..3
              /\ Len(f.contacts) <= T
              /\ \A c \in beyond :
                    c <= Len(InputHeader(f)) /\ InputHeader(f)[c] = f.output_header[c]
              /\ \A k \in 1..Len(f.processed_rows) : \A c \in beyond :
                    CellOrBlank(f.processed_rows[k], c) = CellOrBlank(f.data_rows[k], c)
              /\ \A path \in {Cfg(f).OUTPUT_CSV, Cfg(f).PARTIAL_CSV} :
                    Writes(path) > 0 =>
                      /\ SlotsBeyond(files[path].lines[1], T) \subseteq beyond
                      /\ \A k \in 1..Len(DataLines(path)) : \A c \in beyond :
                            CellOrBlank(DataLines(path)[k], c)
                                = CellOrBlank(f.data_rows[k], c)

\* C30 witness: configured with 5, Phase 2 ran with a maximum of 3, was
\* handed four usable contacts for a row and has written three of them; the
\* third slot's name, filled by hand in the input, is as it was
C30_Witness ==
    \E t \in PhaseFrames :
        LET f == frames[t]
        IN  /\ f.phase = 2 /\ f.pc = "done"
            /\ environ["TARGET_CONTACTS"] = "5"
            /\ Cfg(f).TARGET_CONTACTS = 3
            /\ Contains(InputHeader(f), ContactCol(OUT_COL_CONTACT_NAME, 3))
            /\ Len(f.contacts) = 3
            /\ Writes(Cfg(f).OUTPUT_CSV) = 1
            /\ LET line == DataLines(Cfg(f).OUTPUT_CSV)[Len(f.processed_rows)]
                    h == f.output_header
               IN  /\ line[IndexOf(h, ContactCol(OUT_COL_CONTACT_NAME, 2))] = "Bob Ray"
                   /\ line[IndexOf(h, ContactCol(OUT_COL_CONTACT_NAME, 3))] = "Old Hand"
                   /\ ~Contains(h, ContactCol(OUT_COL_CONTACT_NAME, 4))

\* the number of "+" in a cleaned phone entry of the model
PlusCount(s) == IF s = "+441234" THEN 1 ELSE 0

\* the cells of the row under the columns of the phone family
PhoneCells(row, header) ==
    {row[c] : c \in {c \in 1..Len(header) :
                        c <= Len(row) /\ \E k \in 1..9 : header[c] = PhoneCol(k)}}

\* C31: no number with fewer than 7 digits, counted after the removal of
\* every character other than digits and "+", is in the phone list or in
\* the phone cells of the row; the phone list has no duplicates and keeps
\* the order of first occurrence.
C31_ShortNumbersDropped ==
    lib.op = "phone_list" =>
        /\ \A k \in 1..Len(lib.numbers) :
              Len(lib.numbers[k]) - PlusCount(lib.numbers[k]) >= 7
        /\ \A x \in PhoneCells(lib.row, lib.header) :
              x # "" => Len(x) - PlusCount(x) >= 7
        /\ \A j, k \in 1..Len(lib.numbers) : j # k => lib.numbers[j] # lib.numbers[k]

\* C32: when the input passes the upload validation, a Phase 1 row with a
\* non-empty cell under a column the validation took for the address or
\* the postcode column is not passed over as a blank row: a call is made
\* for it.
C32_AcceptedRowsAsked ==
    \A t \in PhaseFrames :
        LET f == frames[t]
            h == InputHeader(f)
        IN  (f.phase = 1 /\ InLoop(f) /\ upload_accepts(files[Cfg(f).INPUT_CSV])) =>
              \A k \in 1..Len(f.processed_rows) :
                  (\E c \in 1..Len(h) :
                      /\ NamesAddress(h[c]) \/ NamesPostcode(h[c])
                      /\ Strip(CellOrBlank(f.data_rows[k], c)) # "")
                  => f.calls[k] >= 1

\* main() of the frame's phase has finished without an error
FinishedPhase(f, phase) == f.phase = phase /\ f.pc \in {"done", "returned"}

C34_SnapshotLeavesLiveTable ==
    [][\A t \in Tasks :
         LET f == frames[t]
             g == frames'[t]
             path == Cfg(f).PARTIAL_CSV
             before == IF path \in DOMAIN files THEN files[path].writes ELSE 0
             after == IF path \in DOMAIN files' THEN files'[path].writes ELSE 0
         IN  (f.phase \in {1, 2} /\ InLoop(f) /\ InLoop(g) /\ after > before) =>
               /\ g.output_header = f.output_header
               /\ Len(g.processed_rows) = Len(f.processed_rows) + 1
               /\ SubSeq(g.processed_rows, 1, Len(f.processed_rows)) = f.processed_rows
               /\ g.processed_rows[Len(g.processed_rows)] =
                     IF f.pc = "merge" THEN MergedRow(f, f.row)
                     ELSE PadTo(f.data_rows[f.i + 1], Len(f.output_header))]_vars

\* C34 witness: Phase 1 has written a snapshot whose header has a phone
\* column the live header lacks and whose last line holds a phone number,
\* while the live row's phone cell is still empty
C34_Witness ==
    \E t \in PhaseFrames :
        LET f == frames[t]
            path == Cfg(f).PARTIAL_CSV
            n == Len(f.processed_rows)
            c == IndexOf(f.output_header, OUT_COL_PHONE)
        IN  /\ f.phase = 1 /\ f.pc = "loop" /\ n >= 1
            /\ Writes(path) >= 1
            /\ Len(files[path].lines) = n + 1
            /\ Len(files[path].lines[1]) > Len(f.output_header)
            /\ f.processed_rows[n][c] = ""
            /\ files[path].lines[n + 1][c] # ""

\* the table the phase would write as its final output if its loop ended
\* with the rows processed so far
FinalTableNow(f) ==
    IF f.phase = 1
    THEN FinalTablePhase1(f.output_header, f.processed_rows, f.phone_lists)
    ELSE [rows |-> f.processed_rows, header |-> ensure_phone_cols(f.output_header, 1)]

\* the lines of a snapshot are a prefix of the table: header a prefix of the
\* header, each data line equal to the row at its position on the columns of
\* the snapshot header
PrefixOfTable(lines, header, rows) ==
    /\ IsPrefix(lines[1], header)
    /\ Len(lines) - 1 <= Len(rows)
    /\ \A k \in 1..(Len(lines) - 1) : \A c \in 1..Len(lines[1]) :
          CellOrBlank(lines[k + 1], c) = CellOrBlank(rows[k], c)

\* C35: a periodic snapshot is a prefix of the phase's final output: of the
\* output file once the phase has finished, and at every moment of the loop
\* of the table that the rows processed so far will be written as.
C35_SnapshotPrefixOfFinal ==
    \A t \in PhaseFrames :
        LET f == frames[t]
            part == Cfg(f).PARTIAL_CSV
            out == Cfg(f).OUTPUT_CSV
        IN  /\ (InLoop(f) /\ Writes(part) > 0
                  /\ Len(f.phone_lists) \in {0, Len(f.processed_rows)}) =>
                  PrefixOfTable(files[part].lines, FinalTableNow(f).header,
                                FinalTableNow(f).rows)
            /\ (f.pc = "done" /\ Writes(part) > 0) =>
                  PrefixOfTable(files[part].lines, files[out].lines[1], DataLines(out))

\* C35 witness: a finished Phase 1 whose last periodic snapshot has a second
\* phone column and a line with a phone number in it
C35_Witness ==
    \E t \in PhaseFrames :
        LET f == frames[t]
            part == Cfg(f).PARTIAL_CSV
        IN  /\ f.phase = 1 /\ f.pc = "done" /\ Writes(part) >= 1
            /\ Len(files[part].lines) >= 2
            /\ Contains(files[part].lines[1], PhoneCol(2))
            /\ ~Contains(InputHeader(f), PhoneCol(2))
            /\ files[part].lines[2][IndexOf(files[part].lines[1], PhoneCol(2))] # ""

\* C36: every job of a server process runs its Phase 1 on its own upload
\* and with its own output and partial paths, and a finished Phase 1 has
\* left the job's output file with one line per line of the job's upload.
C36_JobUsesOwnFiles ==
    \A j \in DOMAIN jobs :
        LET f == frames[j]
            out == JobPath(j, "phase1_output")
        IN  (f.phase = 1 /\ f.pc # "start") =>
              /\ Cfg(f).INPUT_CSV = jobs[j].input_file
              /\ Cfg(f).OUTPUT_CSV = out
              /\ Cfg(f).PARTIAL_CSV = JobPath(j, "phase1_partial")
              /\ f.pc = "done" =>
                    /\ out \in DOMAIN files
                    /\ Len(files[out].lines) = Len(read_rows(files[jobs[j].input_file]))

\* C37: a job whose stop request has been accepted (its status is "stopped")
\* is not set to completed by any step of the server process, whatever
\* happens to other jobs of the process meanwhile.
C37_StoppedNeverCompleted ==
    [][\A j \in DOMAIN jobs :
          jobs[j].status = "stopped" => jobs'[j].status # "completed"]_vars

\* the record ends the retry loop by its phone list alone
PhoneOnlySuccess(info) ==
    /\ attempt_has_core(info)
    /\ ~(info.website # "" /\ info.email # "")
    /\ ~(info.company_name # "" /\ info.govuk_url # "")

\* C38: when Phase 1 has finished and the retry loop of its last row ended
\* because the result listed a phone number (neither website with inbox nor
\* name with registry URL held), the line of that row in the final output has
\* a non-empty cell in a column of the phone family.
C38_PhoneSuccessHasPhoneCell ==
    \A t \in PhaseFrames :
        LET f == frames[t]
            out == Cfg(f).OUTPUT_CSV
        IN  (/\ f.phase = 1 /\ f.pc = "done" /\ f.i >= 1
             /\ ~(f.address = "" /\ f.postcode = "")
             /\ PhoneOnlySuccess(f.info)) =>
                \E cell \in PhoneCells(files[out].lines[f.i + 1], files[out].lines[1]) :
                    cell # ""

\* the terminal state of row k, appended by the step from frame f to frame g
\* under a retry limit: Skipped without a call, Succeeded after at least one
\* call, Exhausted after as many calls as the limit allows
RowIsSkipped(f, g, k) == RequestEmpty(g, k) /\ g.calls[k] = 0
RowIsSucceeded(f, g, k) == ~RequestEmpty(g, k) /\ Succeeded(f) /\ g.calls[k] >= 1
RowIsExhausted(f, g, k, retries) ==
    ~RequestEmpty(g, k) /\ ~Succeeded(f) /\ g.calls[k] = Max2(0, retries)

====
